---- MODULE Spec2Model ----
(***************************************************************************)
(* Model of the iMessage agent's identity resolution code:                 *)
(*   src/imessage-agent/src/mastra/utils/contactNormalizer.ts              *)
(*   src/imessage-agent/src/mastra/models/ContactStore.ts                  *)
(* JavaScript strings are TLA+ strings; a character is a string of         *)
(* length 1.  Similarity scores are the code's scores times 100            *)
(* (0.8 -> 80, 0.9 -> 90, 0.95 -> 95, 1 -> 100).                            *)
(***************************************************************************)
EXTENDS Integers, Sequences, FiniteSets, TLC

VARIABLES contacts, identifierToContactMap, last, log, cmp, norm, conv

vars == <<contacts, identifierToContactMap, last, log, cmp, norm, conv>>

(***************************************************************************)
(* Bounds and input sets                                                   *)
(***************************************************************************)
\* upserts between two clears, under Spec
MaxUpserts == 3

\* upserts between two clears, under NameSpec
MaxNameUpserts == 3

\* raw identifiers upserted under Spec
Raws ==
    { "+1 (555) 123-4567", "5551234567", "+445551234567",
      "(212) 555-1234", "12125551234", "" }

\* (display name, source) of an upsert under Spec: the contact file gives a
\* name, the handle table gives the placeholder
Provenance == { <<"Bob", "vcf">>, <<"Unknown", "chat.db">> }

\* raw identifiers looked up under Spec
FindRaws == { "5551234567", "12125551234", "3105551234", "" }

\* upserts between two clears, under OrderSpec
MaxOrderUpserts == 3

\* raw identifiers upserted under OrderSpec
OrderRaws == { "+1 (555) 123-4567", "5551234567", "+445551234567", "a@b.co" }

\* raw identifiers upserted under NameSpec, with every name and source
NameRaws == { "+1 (555) 123-4567", "5551234567", "+445551234567" }

Names == { "Unknown", "Bob", "Robert" }

Sources == { "vcf", "chat.db" }

Queries == { "bob", "555" }

\* upserts between two clears, under SearchSpec
MaxSearchUpserts == 3

\* (raw identifier, display name, source) of an upsert under SearchSpec
SearchTriples ==
    { <<"5551234567", "John Smith", "vcf">>,
      <<"+1 (555) 123-4567", "Unknown", "chat.db">>,
      <<"john@example.com", "Unknown", "chat.db">>,
      <<"John@Example.com", "Bob", "vcf">>,
      <<"(212) 555-1234", "Bob", "vcf">> }

\* queries under SearchSpec: a name, in two cases; a part of a normalized
\* value only; a part of a raw value only; a part of nothing
SearchQueries == { "john", "SMITH", "+1555", "(555)", "zz" }

\* raw identifiers handed to compareContactIds under CmpSpec
CmpRaws ==
    Raws \cup FindRaws
    \cup { "a@b.co", "A@B.co", "x", " x", "5559999999", "555-1234", "12345",
           "+44 20 5551234", "5551234@1.23" }

\* upserts between two clears, under RoundSpec
MaxRoundUpserts == 3

\* (raw identifier, display name, source) of an upsert under RoundSpec: a
\* number in two spellings, an address in two spellings, the empty string,
\* a string that is neither, and an address made of digits
RoundTriples ==
    { <<"+1 (555) 123-4567", "Bob", "vcf">>,
      <<"5551234567", "Unknown", "chat.db">>,
      <<"john@example.com", "John Smith", "vcf">>,
      <<"John@Example.com", "Unknown", "chat.db">>,
      <<"", "Unknown", "chat.db">>,
      <<" x", "Bob", "vcf">>,
      <<"5551234@1.23", "Unknown", "chat.db">> }

\* value of an absent optional argument / absent Map entry
Undefined == "<undefined>"

\* message rows in chat.db, under ConvSpec
MaxRows == 3

\* the handle the conversations are asked for, and a handle that joins the
\* group thread later
QueriedHandle == "+15551234567"

ThirdHandle == "+15559876543"

\* contacts.vcf: one card, whose number is QueriedHandle in another spelling
VCards == << [ fn |-> "Bob", tel |-> <<"(555) 123-4567">>, email |-> <<>> ] >>

\* contactId arguments of the conversation tool
BobId == "phone:+15551234567"

NobodyId == "phone:+15550000000"

\* raw identifiers that reach the store under ConvSpec
ConvRaws == { QueriedHandle, ThirdHandle, "(555) 123-4567", BobId, NobodyId }

\* message rows in chat.db, under FailSpec
MaxFailRows == 2

\* String(n) for a number of one digit
DigitString(n) == SubSeq("0123456789", n + 1, n + 1)

\* the literals of dataLoader.ts: mockContacts, mockHandles, and the second
\* and third entry of mockParticipants
MockContacts ==
    << [ name |-> "John Smith", phone |-> "+1 (555) 123-4567", email |-> "john@example.com" ],
       [ name |-> "Jane Doe", phone |-> "555-765-4321", email |-> "jane@example.com" ],
       [ name |-> "Bob Johnson", phone |-> "(123) 456-7890", email |-> "bob@example.com" ] >>

MockHandles == << "+15551234567", "+15557654321", "email@example.com", "+12125551212" >>

MockUser == "user@icloud.com"

MockThird(convId) == "+1555123" \o DigitString(convId) \o "456"

\* the queries of the find-contact tool, under ToolSpec: a name, digits
\* inside several numbers, a handle, an email address, a letter of several
\* names, a string in nothing, the empty string
ToolQueries == { "Bob", "555", "+15551234567", "jane@example.com", "o", "zz", "" }

\* raw identifiers that reach the store under FailSpec
FailRaws ==
    { MockContacts[c].phone : c \in 1..Len(MockContacts) }
    \cup { MockContacts[c].email : c \in 1..Len(MockContacts) }
    \cup { MockHandles[h] : h \in 1..Len(MockHandles) }
    \cup { MockUser, MockThird(0), MockThird(2) }

(***************************************************************************)
(* String helpers (JavaScript String methods)                              *)
(***************************************************************************)
Ch(s, i) == SubSeq(s, i, i)

DigitChars == { "0", "1", "2", "3", "4", "5", "6", "7", "8", "9" }

\* characters matched by \s that occur in the inputs
SpaceChars == { " ", "\t", "\n" }

\* s.startsWith(p)
StartsWith(s, p) == Len(s) >= Len(p) /\ SubSeq(s, 1, Len(p)) = p

\* s.substring(n)
Substring(s, n) == SubSeq(s, n + 1, Len(s))

\* s.slice(-n)
SliceLast(s, n) == IF Len(s) <= n THEN s ELSE SubSeq(s, Len(s) - n + 1, Len(s))

\* s.replace(/\D/g, "")
RECURSIVE StripNonDigits(_)
StripNonDigits(s) ==
    IF s = "" THEN ""
    ELSE (IF Head(s) \in DigitChars THEN Head(s) ELSE "") \o StripNonDigits(Tail(s))

Upper == "ABCDEFGHIJKLMNOPQRSTUVWXYZ"
Lower == "abcdefghijklmnopqrstuvwxyz"

LowerChar(c) ==
    IF \E i \in 1..Len(Upper) : Ch(Upper, i) = c
    THEN Ch(Lower, CHOOSE i \in 1..Len(Upper) : Ch(Upper, i) = c)
    ELSE c

\* s.toLowerCase()
RECURSIVE ToLowerCase(_)
ToLowerCase(s) ==
    IF s = "" THEN "" ELSE LowerChar(Head(s)) \o ToLowerCase(Tail(s))

RECURSIVE TrimStart(_)
TrimStart(s) ==
    IF s # "" /\ Head(s) \in SpaceChars THEN TrimStart(Tail(s)) ELSE s

RECURSIVE TrimEnd(_)
TrimEnd(s) ==
    IF s # "" /\ Ch(s, Len(s)) \in SpaceChars
    THEN TrimEnd(SubSeq(s, 1, Len(s) - 1))
    ELSE s

\* s.trim()
Trim(s) == TrimEnd(TrimStart(s))

\* s.includes(q)
Includes(s, q) ==
    \E i \in 1..(Len(s) + 1) :
        i + Len(q) - 1 <= Len(s) /\ SubSeq(s, i, i + Len(q) - 1) = q

\* index of the first ":" of s, 0 when there is none
FirstColon(s) ==
    IF \E i \in 1..Len(s) : Ch(s, i) = ":"
    THEN CHOOSE i \in 1..Len(s) :
            Ch(s, i) = ":" /\ \A j \in 1..(i - 1) : Ch(s, j) # ":"
    ELSE 0

(***************************************************************************)
(* contactNormalizer.ts                                                    *)
(***************************************************************************)
\* normalizePhoneNumber without the "already has a country code" case
normalizePhoneNumber_alwaysPrefix(phoneNumber, defaultCountryCode) ==
    IF phoneNumber = "" THEN ""
    ELSE LET digits == StripNonDigits(phoneNumber) IN
         IF StartsWith(phoneNumber, "+") THEN "+" \o digits
         ELSE IF StartsWith(phoneNumber, "00") THEN "+" \o Substring(digits, 2)
         ELSE "+" \o defaultCountryCode \o digits

normalizePhoneNumber(phoneNumber, defaultCountryCode) ==
    IF phoneNumber = "" THEN ""
    ELSE LET digits == StripNonDigits(phoneNumber) IN
         IF StartsWith(phoneNumber, "+") THEN "+" \o digits
         ELSE IF StartsWith(phoneNumber, "00") THEN "+" \o Substring(digits, 2)
         ELSE IF Len(digits) >= 11
                 /\ (StartsWith(digits, "1") \/ StartsWith(digits, defaultCountryCode))
              THEN "+" \o digits
         ELSE "+" \o defaultCountryCode \o digits

normalizeEmail(email) ==
    IF email = "" THEN "" ELSE ToLowerCase(Trim(email))

\* digitRatio > 0.5  <=>  2 * #digits > length
isLikelyPhoneNumber(input) ==
    LET n == Len(StripNonDigits(input)) IN
    IF n = 0 THEN FALSE ELSE 2 * n > Len(input)

\* /^[^\s@]+@[^\s@]+\.[^\s@]+$/ : i is the "@", j the "." of the match
isLikelyEmail(input) ==
    LET Plain(a, b) ==
            /\ a <= b
            /\ \A k \in a..b : Ch(input, k) \notin (SpaceChars \cup {"@"})
    IN \E i \in 1..Len(input) :
            /\ Ch(input, i) = "@"
            /\ Plain(1, i - 1)
            /\ \E j \in (i + 1)..Len(input) :
                    /\ Ch(input, j) = "."
                    /\ Plain(i + 1, j - 1)
                    /\ Plain(j + 1, Len(input))

createContactId(input) ==
    IF input = "" THEN ""
    ELSE IF isLikelyEmail(input) THEN "email:" \o normalizeEmail(input)
    ELSE IF isLikelyPhoneNumber(input) THEN "phone:" \o normalizePhoneNumber(input, "1")
    ELSE "unknown:" \o Trim(input)

extractContactValue(contactId) ==
    IF contactId = "" THEN ""
    ELSE IF FirstColon(contactId) > 0
         THEN Substring(contactId, FirstColon(contactId))
         ELSE contactId

getContactIdType(contactId) ==
    IF contactId = "" THEN "unknown"
    ELSE IF StartsWith(contactId, "phone:") THEN "phone"
    ELSE IF StartsWith(contactId, "email:") THEN "email"
    ELSE "unknown"

createContactInfo(rawValue, displayName, source) ==
    LET isPhone == isLikelyPhoneNumber(rawValue)
        isEmail == isLikelyEmail(rawValue)
        type == IF isPhone THEN "phone" ELSE IF isEmail THEN "email" ELSE "unknown"
        normalizedValue ==
            IF isPhone THEN normalizePhoneNumber(rawValue, "1")
            ELSE IF isEmail THEN normalizeEmail(rawValue)
            ELSE rawValue
    IN [ id |-> type \o ":" \o normalizedValue,
         displayName |-> displayName,
         rawValue |-> rawValue,
         type |-> type,
         normalizedValue |-> normalizedValue,
         source |-> source ]

\* compareContactIds that knows equal normalized identifiers only
compareContactIds_exactOnly(id1, id2) ==
    IF id1 = "" \/ id2 = "" THEN 0
    ELSE IF createContactId(id1) = createContactId(id2) THEN 100 ELSE 0

compareContactIds(id1, id2) ==
    IF id1 = "" \/ id2 = "" THEN 0
    ELSE LET normalized1 == createContactId(id1)
             normalized2 == createContactId(id2)
             type1 == getContactIdType(normalized1)
             type2 == getContactIdType(normalized2)
             value1 == StripNonDigits(extractContactValue(normalized1))
             value2 == StripNonDigits(extractContactValue(normalized2))
         IN IF normalized1 = normalized2 THEN 100
            ELSE IF type1 # type2 THEN 0
            ELSE IF type1 = "phone" /\ type2 = "phone"
                 THEN IF /\ Len(value1) >= 7
                         /\ Len(value2) >= 7
                         /\ SliceLast(value1, 7) = SliceLast(value2, 7)
                      THEN 90
                      ELSE IF /\ Len(value1) >= 10
                              /\ Len(value2) >= 10
                              /\ SliceLast(value1, 10) = SliceLast(value2, 10)
                           THEN 95
                           ELSE 0
                 ELSE 0

(***************************************************************************)
(* The two normalizer functions the store calls, tabulated once over the   *)
(* strings the model passes to them (TLC evaluates a constant definition   *)
(* a single time); the tables are the operators above, nothing else.       *)
(***************************************************************************)
\* the primary keys an Identity can get under RoundSpec
RoundKeys == { createContactInfo(t[1], Undefined, Undefined).id : t \in RoundTriples }

AllRaws ==
    Raws \cup FindRaws \cup NameRaws \cup OrderRaws \cup CmpRaws
    \cup { t[1] : t \in SearchTriples }
    \cup ConvRaws \cup FailRaws \cup ToolQueries
    \cup { t[1] : t \in RoundTriples } \cup RoundKeys

AllNames ==
    Names \cup { t[2] : t \in SearchTriples }
    \cup { MockContacts[c].name : c \in 1..Len(MockContacts) }

AllQueries == Queries \cup SearchQueries \cup ToolQueries

\* the function f with every value computed (f @@ g enumerates f)
Tabulated(f) == f @@ [k \in {} |-> ""]

createContactInfoTable ==
    Tabulated([a \in AllRaws \X (AllNames \cup {Undefined}) \X (Sources \cup {Undefined}) |->
                  createContactInfo(a[1], a[2], a[3])])

createContactIdTable == Tabulated([r \in AllRaws |-> createContactId(r)])

compareContactIdsTable ==
    Tabulated([p \in AllRaws \X AllRaws |-> compareContactIds(p[1], p[2])])

\* s.toLowerCase().includes(query.toLowerCase()), tabulated the same way over
\* the display names and the raw and normalized identifier values
SearchStrings ==
    AllNames \cup AllRaws
    \cup { createContactInfo(r, Undefined, Undefined).normalizedValue : r \in AllRaws }

lowerIncludesTable ==
    Tabulated([p \in SearchStrings \X AllQueries |->
                  Includes(ToLowerCase(p[1]), ToLowerCase(p[2]))])

(***************************************************************************)
(* ContactStore.ts.  A store value st is the pair of Maps                  *)
(*   contacts               : the entries in insertion order               *)
(*   identifierToContactMap : a function from identifier id to contact id  *)
(* The operators return the Maps after the call and the returned value     *)
(* ret: a sequence holding the returned Contact, <<>> for undefined.       *)
(* lastUpdated (the wall clock) is not part of the model.                  *)
(***************************************************************************)
EmptyMap == [k \in {} |-> ""]

\* Map.get
MapGet(m, k) == IF k \in DOMAIN m THEN m[k] ELSE Undefined

\* Map.set
MapSet(m, k, v) == [x \in (DOMAIN m) \cup {k} |-> IF x = k THEN v ELSE m[x]]

\* if (value)
Truthy(v) == v # Undefined /\ v # ""

\* position of the entry of key contactId in contacts, 0 when absent
IndexOf(cs, contactId) ==
    IF \E i \in 1..Len(cs) : cs[i].contactId = contactId
    THEN CHOOSE i \in 1..Len(cs) : cs[i].contactId = contactId
    ELSE 0

\* array.includes(x)
SeqIncludes(seq, x) == \E i \in 1..Len(seq) : seq[i] = x

\* createNewContact without the reverse-index entry
createNewContact_noIndex(st, identifier, displayName, source) ==
    LET contact == [ contactId |-> identifier.id,
                     displayName |-> displayName,
                     identifiers |-> <<identifier>>,
                     sources |-> <<source>> ]
    IN [ contacts |-> Append(st.contacts, contact),
         identifierToContactMap |-> st.identifierToContactMap,
         ret |-> <<contact>> ]

createNewContact(st, identifier, displayName, source) ==
    LET contact == [ contactId |-> identifier.id,
                     displayName |-> displayName,
                     identifiers |-> <<identifier>>,
                     sources |-> <<source>> ]
        i == IndexOf(st.contacts, contact.contactId)
    IN [ contacts |-> IF i = 0 THEN Append(st.contacts, contact)
                      ELSE [st.contacts EXCEPT ![i] = contact],
         identifierToContactMap |->
             MapSet(st.identifierToContactMap, identifier.id, contact.contactId),
         ret |-> <<contact>> ]

\* hasIdentifier that never finds the identifier
hasIdentifier_never(contact, newIdentifier) == FALSE

\* contact.identifiers.some((id) => id.id === newIdentifier.id)
hasIdentifier(contact, newIdentifier) ==
    \E k \in 1..Len(contact.identifiers) :
        contact.identifiers[k].id = newIdentifier.id

\* updatedSources that never records a second source
updatedSources_keep(contact, source) == contact.sources

\* updatedSources that keeps the incoming source only
updatedSources_replace(contact, source) == <<source>>

\* contact.sources after "Update sources if needed"
updatedSources(contact, source) ==
    IF SeqIncludes(contact.sources, source) THEN contact.sources
    ELSE Append(contact.sources, source)

\* the condition of "Update name if we have a better one"; sources is
\* contact.sources at that point, after the source was pushed
shouldUpdateName(currentName, sources, displayName, source) ==
    \/ (source = "vcf" /\ ~SeqIncludes(sources, "vcf"))
    \/ (currentName = "Unknown" /\ displayName # "Unknown")

updateExistingContact(st, contactId, newIdentifier, displayName, source) ==
    LET i == IndexOf(st.contacts, contactId) IN
    IF i = 0 THEN createNewContact(st, newIdentifier, displayName, source)
    ELSE
    LET contact == st.contacts[i]
        has == hasIdentifier(contact, newIdentifier)
        identifiers1 == IF has THEN contact.identifiers
                        ELSE Append(contact.identifiers, newIdentifier)
        map1 == IF has THEN st.identifierToContactMap
                ELSE MapSet(st.identifierToContactMap, newIdentifier.id, contactId)
        sources1 == updatedSources(contact, source)
        displayName1 ==
            IF shouldUpdateName(contact.displayName, sources1, displayName, source)
            THEN displayName
            ELSE contact.displayName
        contact1 == [ contactId |-> contact.contactId,
                      displayName |-> displayName1,
                      identifiers |-> identifiers1,
                      sources |-> sources1 ]
    IN [ contacts |-> [st.contacts EXCEPT ![i] = contact1],
         identifierToContactMap |-> map1,
         ret |-> <<contact1>> ]

\* the (contact, identifier) pairs in the order the nested forEach visits them
RECURSIVE Visited(_)
Visited(cs) ==
    IF cs = <<>> THEN <<>>
    ELSE [k \in 1..Len(Head(cs).identifiers) |->
             [ contactId |-> Head(cs).contactId,
               rawValue |-> Head(cs).identifiers[k].rawValue ]]
         \o Visited(Tail(cs))

\* betterMatch with the threshold at 0.9
betterMatch_threshold(score, bestMatchScore) == score > 90 /\ score > bestMatchScore

\* score > 0.8 && score > bestMatchScore
betterMatch(score, bestMatchScore) == score > 80 /\ score > bestMatchScore

\* the loop body, from the state (bestMatchScore, bestMatchId)
RECURSIVE BestMatchLoop(_, _, _, _)
BestMatchLoop(visited, rawIdentifier, bestMatchScore, bestMatchId) ==
    IF visited = <<>> THEN bestMatchId
    ELSE LET score == compareContactIdsTable[<<rawIdentifier, Head(visited).rawValue>>] IN
         IF betterMatch(score, bestMatchScore)
         THEN BestMatchLoop(Tail(visited), rawIdentifier, score, Head(visited).contactId)
         ELSE BestMatchLoop(Tail(visited), rawIdentifier, bestMatchScore, bestMatchId)

\* findBestMatchingContactId that answers with the first contact of the store
findBestMatchingContactId_first(st, rawIdentifier) ==
    IF st.contacts = <<>> THEN Undefined ELSE st.contacts[1].contactId

findBestMatchingContactId(st, rawIdentifier) ==
    BestMatchLoop(Visited(st.contacts), rawIdentifier, 0, Undefined)

addOrUpdateContact(st, rawIdentifier, displayName, source) ==
    LET contactInfo == createContactInfoTable[<<rawIdentifier, displayName, source>>]
        existingContactId == MapGet(st.identifierToContactMap, contactInfo.id)
        matchedContactId == findBestMatchingContactId(st, contactInfo.rawValue)
    IN IF Truthy(existingContactId)
       THEN updateExistingContact(st, existingContactId, contactInfo, displayName, source)
       ELSE IF Truthy(matchedContactId)
            THEN updateExistingContact(st, matchedContactId, contactInfo, displayName, source)
            ELSE createNewContact(st, contactInfo, displayName, source)

\* this.contacts.get(id) as a returned value
ContactsGet(st, contactId) ==
    IF IndexOf(st.contacts, contactId) = 0 THEN <<>>
    ELSE <<st.contacts[IndexOf(st.contacts, contactId)]>>

\* findContact that attaches the identifier it resolved by fuzzy match
findContact_attaching(st, identifier) ==
    LET key == createContactInfoTable[<<identifier, Undefined, Undefined>>].id
        r == addOrUpdateContact(st, identifier, "Unknown", "chat.db")
    IN IF Truthy(MapGet(st.identifierToContactMap, key))
          \/ ~Truthy(findBestMatchingContactId(st, identifier))
       THEN [ contacts |-> st.contacts,
              identifierToContactMap |-> st.identifierToContactMap,
              ret |-> IF Truthy(MapGet(st.identifierToContactMap, key))
                      THEN ContactsGet(st, MapGet(st.identifierToContactMap, key))
                      ELSE <<>> ]
       ELSE r

findContact(st, identifier) ==
    LET contactInfo == createContactInfoTable[<<identifier, Undefined, Undefined>>]
        contactId == MapGet(st.identifierToContactMap, contactInfo.id)
        bestMatchId == findBestMatchingContactId(st, identifier)
    IN [ contacts |-> st.contacts,
         identifierToContactMap |-> st.identifierToContactMap,
         ret |-> IF Truthy(contactId) THEN ContactsGet(st, contactId)
                 ELSE IF Truthy(bestMatchId) THEN ContactsGet(st, bestMatchId)
                 ELSE <<>> ]

\* searchContacts that does not look at the normalized values
searchContacts_rawOnly(st, query) ==
    LET Matches(contact) ==
            \/ lowerIncludesTable[<<contact.displayName, query>>]
            \/ \E k \in 1..Len(contact.identifiers) :
                  lowerIncludesTable[<<contact.identifiers[k].rawValue, query>>]
    IN [ contacts |-> st.contacts,
         identifierToContactMap |-> st.identifierToContactMap,
         ret |-> SelectSeq(st.contacts, Matches) ]

searchContacts(st, query) ==
    LET Matches(contact) ==
            \/ lowerIncludesTable[<<contact.displayName, query>>]
            \/ \E k \in 1..Len(contact.identifiers) :
                  \/ lowerIncludesTable[<<contact.identifiers[k].rawValue, query>>]
                  \/ lowerIncludesTable[<<contact.identifiers[k].normalizedValue, query>>]
    IN [ contacts |-> st.contacts,
         identifierToContactMap |-> st.identifierToContactMap,
         ret |-> SelectSeq(st.contacts, Matches) ]

getStats(st) ==
    LET HasType(contact, t) ==
            \E k \in 1..Len(contact.identifiers) : contact.identifiers[k].type = t
        Count(P(_)) == Cardinality({i \in 1..Len(st.contacts) : P(st.contacts[i])})
        IsPhone(c) == HasType(c, "phone")
        IsEmail(c) == HasType(c, "email")
        IsVcf(c) == SeqIncludes(c.sources, "vcf")
        IsChatDb(c) == SeqIncludes(c.sources, "chat.db")
    IN [ contacts |-> st.contacts,
         identifierToContactMap |-> st.identifierToContactMap,
         ret |-> [ totalContacts |-> Len(st.contacts),
                   phoneContacts |-> Count(IsPhone),
                   emailContacts |-> Count(IsEmail),
                   vcfSourceCount |-> Count(IsVcf),
                   chatDbSourceCount |-> Count(IsChatDb) ] ]

\* clear that leaves the reverse index alone
clear_contactsOnly(st) ==
    [ contacts |-> <<>>, identifierToContactMap |-> st.identifierToContactMap,
      ret |-> <<>> ]

clear(st) ==
    [ contacts |-> <<>>, identifierToContactMap |-> EmptyMap, ret |-> <<>> ]

(***************************************************************************)
(* The store as a state machine: one action per public method.             *)
(*   last : the last call, its arguments and its returned value            *)
(*   log  : the upserts since construction or the last clear               *)
(*   cmp  : the call of compareContactIds under CmpSpec                    *)
(*   norm : the calls of the normalizer's functions under NormSpec         *)
(*   conv : the call of getConversationsTool.execute under ConvSpec        *)
(***************************************************************************)
Store == [ contacts |-> contacts, identifierToContactMap |-> identifierToContactMap ]

NoCall == [ op |-> "none", raw |-> "", name |-> "", source |-> "", ret |-> <<>> ]

Init ==
    /\ contacts = <<>>
    /\ identifierToContactMap = EmptyMap
    /\ last = NoCall
    /\ log = <<>>
    /\ cmp = <<>>
    /\ norm = <<>>
    /\ conv = <<>>

Upsert(raw, name, source) ==
    /\ LET r == addOrUpdateContact(Store, raw, name, source) IN
        /\ contacts' = r.contacts
        /\ identifierToContactMap' = r.identifierToContactMap
        /\ last' = [ op |-> "upsert", raw |-> raw, name |-> name,
                     source |-> source, ret |-> r.ret ]
    /\ log' = Append(log, [ raw |-> raw, name |-> name, source |-> source ])
    /\ UNCHANGED <<cmp, norm, conv>>

Find(raw) ==
    /\ LET r == findContact(Store, raw) IN
        /\ contacts' = r.contacts
        /\ identifierToContactMap' = r.identifierToContactMap
        /\ last' = [ op |-> "find", raw |-> raw, name |-> "", source |-> "",
                     ret |-> r.ret ]
    /\ UNCHANGED <<log, cmp, norm, conv>>

Search(query) ==
    /\ LET r == searchContacts(Store, query) IN
        /\ contacts' = r.contacts
        /\ identifierToContactMap' = r.identifierToContactMap
        /\ last' = [ op |-> "search", raw |-> query, name |-> "", source |-> "",
                     ret |-> r.ret ]
    /\ UNCHANGED <<log, cmp, norm, conv>>

Stats ==
    /\ LET r == getStats(Store) IN
        /\ contacts' = r.contacts
        /\ identifierToContactMap' = r.identifierToContactMap
        /\ last' = [ op |-> "stats", raw |-> "", name |-> "", source |-> "",
                     ret |-> r.ret ]
    /\ UNCHANGED <<log, cmp, norm, conv>>

Clear ==
    /\ LET r == clear(Store) IN
        /\ contacts' = r.contacts
        /\ identifierToContactMap' = r.identifierToContactMap
        /\ last' = [ op |-> "clear", raw |-> "", name |-> "", source |-> "",
                     ret |-> r.ret ]
    /\ log' = <<>>
    /\ UNCHANGED <<cmp, norm, conv>>

Next ==
    \/ \E raw \in Raws, p \in Provenance :
          Len(log) < MaxUpserts /\ Upsert(raw, p[1], p[2])
    \/ \E raw \in FindRaws : Find(raw)
    \/ \E query \in Queries : Search(query)
    \/ Stats
    \/ Clear

Spec == Init /\ [][Next]_vars

(***************************************************************************)
(* The store under upserts of every display name and source.               *)
(***************************************************************************)
NameNext ==
    \/ \E raw \in NameRaws, name \in Names, source \in Sources :
          Len(log) < MaxNameUpserts /\ Upsert(raw, name, source)
    \/ Clear

NameSpec == Init /\ [][NameNext]_vars

(***************************************************************************)
(* The store under upserts alone, for the insertion orders of a set of     *)
(* triples.                                                                *)
(***************************************************************************)
OrderNext ==
    \/ \E raw \in OrderRaws, p \in Provenance :
          Len(log) < MaxOrderUpserts /\ Upsert(raw, p[1], p[2])
    \/ Clear

OrderSpec == Init /\ [][OrderNext]_vars

(***************************************************************************)
(* The store under upserts and searches, with names, identifiers and       *)
(* queries that match by name, by raw value or by normalized value.        *)
(***************************************************************************)
SearchNext ==
    \/ \E t \in SearchTriples :
          Len(log) < MaxSearchUpserts /\ Upsert(t[1], t[2], t[3])
    \/ \E query \in SearchQueries : Search(query)
    \/ Clear

SearchSpec == Init /\ [][SearchNext]_vars

(***************************************************************************)
(* compareContactIds as a function of its two arguments: cmp is the call,  *)
(* score -1 until it has returned.                                         *)
(***************************************************************************)
CmpInit ==
    /\ contacts = <<>>
    /\ identifierToContactMap = EmptyMap
    /\ last = NoCall
    /\ log = <<>>
    /\ cmp \in { <<[ id1 |-> a, id2 |-> b, score |-> -1 ]>> : a \in CmpRaws, b \in CmpRaws }
    /\ norm = <<>>
    /\ conv = <<>>

Compare ==
    /\ cmp # <<>>
    /\ cmp[1].score = -1
    /\ cmp' = <<[ cmp[1] EXCEPT !.score = compareContactIds(cmp[1].id1, cmp[1].id2) ]>>
    /\ UNCHANGED <<contacts, identifierToContactMap, last, log, norm, conv>>

CmpNext == Compare

CmpSpec == CmpInit /\ [][CmpNext]_vars

(***************************************************************************)
(* The normalizer's functions as functions of their arguments: norm is the *)
(* call record, raw and other the inputs, cc the default country code;     *)
(* each result is <<>> until its function has returned.                    *)
(***************************************************************************)
NormRaws ==
    { "+1 (555) 123-4567", "+15551234567", "5551234567", "12125551234",
      "+445551234567", " +445551234567", "(+44) 5551234567",
      "0044 5551234567", "445551234567", "00", "001", "", " x",
      "5551234@1.23", " John@Example.COM", "john@example.com" }

CountryCodes == { "1", "44" }

NormInit ==
    /\ contacts = <<>>
    /\ identifierToContactMap = EmptyMap
    /\ last = NoCall
    /\ log = <<>>
    /\ cmp = <<>>
    /\ conv = <<>>
    /\ norm \in { <<[ raw |-> a, other |-> b, cc |-> c,
                     phone |-> <<>>, email |-> <<>>, info |-> <<>>, key |-> <<>> ]>> :
                    a \in NormRaws, b \in { "+445551234567", "+15551234567", "5551234567" },
                    c \in CountryCodes }

NormFrame == UNCHANGED <<contacts, identifierToContactMap, last, log, cmp, conv>>

\* normalizePhoneNumber(raw, cc) and normalizePhoneNumber(other, cc)
NormalizePhone ==
    /\ norm # <<>>
    /\ norm[1].phone = <<>>
    /\ norm' = <<[ norm[1] EXCEPT !.phone =
                     << normalizePhoneNumber(norm[1].raw, norm[1].cc),
                        normalizePhoneNumber(norm[1].other, norm[1].cc) >> ]>>
    /\ NormFrame

\* normalizeEmail(raw)
NormalizeEmail ==
    /\ norm # <<>>
    /\ norm[1].email = <<>>
    /\ norm' = <<[ norm[1] EXCEPT !.email = << normalizeEmail(norm[1].raw) >> ]>>
    /\ NormFrame

\* createContactInfo(raw): what the store keys the identifier by
Classify ==
    /\ norm # <<>>
    /\ norm[1].info = <<>>
    /\ norm' = <<[ norm[1] EXCEPT !.info =
                     << createContactInfo(norm[1].raw, Undefined, Undefined) >> ]>>
    /\ NormFrame

\* createContactId(raw)
MakeKey ==
    /\ norm # <<>>
    /\ norm[1].key = <<>>
    /\ norm' = <<[ norm[1] EXCEPT !.key = << createContactId(norm[1].raw) >> ]>>
    /\ NormFrame

NormNext == NormalizePhone \/ NormalizeEmail \/ Classify \/ MakeKey

NormSpec == NormInit /\ [][NormNext]_vars

(***************************************************************************)
(* Vocabulary of the properties                                            *)
(***************************************************************************)
\* the canonical key under which the store files a raw identifier
KeyOf(raw) == createContactInfo(raw, Undefined, Undefined).id

KeyTable == Tabulated([r \in AllRaws |-> KeyOf(r)])

\* the identifier ids and the source tags of a contact, as sets
IdsOf(contact) == { contact.identifiers[k].id : k \in 1..Len(contact.identifiers) }

TagsOf(contact) == { contact.sources[k] : k \in 1..Len(contact.sources) }

\* this step is a call of addOrUpdateContact
UpsertStep == last'.op = "upsert" /\ Len(log') = Len(log) + 1

\* the key of the identifier upserted by this step is owned before the step
OwnedBefore == KeyTable[last'.raw] \in DOMAIN identifierToContactMap

\* some identifier of contact c scores above the threshold against raw
FuzzyHit(c, raw) ==
    \E k \in 1..Len(c.identifiers) :
        compareContactIdsTable[<<raw, c.identifiers[k].rawValue>>] > 80

(***************************************************************************)
(* C1: the identity map and the reverse index agree: every identifier of   *)
(* an Identity is indexed to that Identity's primary key, every index      *)
(* entry points to an existing Identity that holds the identifier, and no  *)
(* identifier id is held by two Identities.                                *)
(***************************************************************************)
C1_MapsAgree ==
    /\ \A i \in 1..Len(contacts) : \A id \in IdsOf(contacts[i]) :
          /\ id \in DOMAIN identifierToContactMap
          /\ identifierToContactMap[id] = contacts[i].contactId
    /\ \A id \in DOMAIN identifierToContactMap :
          \E i \in 1..Len(contacts) :
              /\ contacts[i].contactId = identifierToContactMap[id]
              /\ id \in IdsOf(contacts[i])
    /\ \A i, j \in 1..Len(contacts) :
          i # j => /\ IdsOf(contacts[i]) \cap IdsOf(contacts[j]) = {}
                   /\ contacts[i].contactId # contacts[j].contactId

\* two Identities, one of them holding a fuzzily attached second identifier
C1_Witness ==
    /\ last.op = "upsert"
    /\ Len(contacts) = 2
    /\ \E i \in 1..2 : Cardinality(IdsOf(contacts[i])) = 2
    /\ Cardinality(DOMAIN identifierToContactMap) = 3

(***************************************************************************)
(* C2: an upsert removes no Identity, and removes no identifier and no     *)
(* source tag from any Identity.                                           *)
(***************************************************************************)
C2_Monotonic ==
    [][ UpsertStep =>
          /\ Len(contacts') >= Len(contacts)
          /\ \A i \in 1..Len(contacts) :
                /\ contacts'[i].contactId = contacts[i].contactId
                /\ IdsOf(contacts[i]) \subseteq IdsOf(contacts'[i])
                /\ TagsOf(contacts[i]) \subseteq TagsOf(contacts'[i]) ]_vars

\* an Identity that has accumulated two identifiers and two source tags
C2_Witness ==
    /\ last.op = "upsert"
    /\ \E i \in 1..Len(contacts) :
          /\ Cardinality(IdsOf(contacts[i])) = 2
          /\ TagsOf(contacts[i]) = { "vcf", "chat.db" }

(***************************************************************************)
(* C3: an upsert whose canonical key is already owned merges in place:     *)
(* the number of Identities is unchanged, the owner is returned and its    *)
(* identifier list holds the key once.  "+1 (555) 123-4567" followed by   *)
(* "5551234567" gives one Identity of key phone:+15551234567.             *)
(***************************************************************************)
C3_MergeInPlace ==
    [][ /\ (UpsertStep /\ OwnedBefore) =>
              LET key == KeyTable[last'.raw]
                  owner == identifierToContactMap[key]
              IN /\ Len(contacts') = Len(contacts)
                 /\ Len(last'.ret) = 1
                 /\ last'.ret[1].contactId = owner
                 /\ last'.ret[1] = contacts'[IndexOf(contacts', owner)]
                 /\ Cardinality({ k \in 1..Len(last'.ret[1].identifiers) :
                                    last'.ret[1].identifiers[k].id = key }) = 1
        /\ ( /\ Len(log') = 2
             /\ log'[1].raw = "+1 (555) 123-4567"
             /\ log'[2].raw = "5551234567" ) =>
              /\ Len(contacts') = 1
              /\ contacts'[1].contactId = "phone:+15551234567"
              /\ IdsOf(contacts'[1]) = { "phone:+15551234567" } ]_vars

\* the spec's example has run
C3_Witness ==
    /\ last.op = "upsert"
    /\ Len(log) = 2
    /\ log[1].raw = "+1 (555) 123-4567"
    /\ log[2].raw = "5551234567"
    /\ Len(contacts) = 1
    /\ Len(contacts[1].identifiers) = 1

(***************************************************************************)
(* C4: an upsert whose canonical key is not owned attaches the identifier  *)
(* to an existing Identity when one of its identifiers scores above the    *)
(* threshold, creating no Identity; otherwise it creates exactly one       *)
(* Identity: primary key the canonical key, the single identifier, the     *)
(* single source tag.                                                      *)
(***************************************************************************)
C4_UnownedKey ==
    [][ (UpsertStep /\ ~OwnedBefore) =>
          LET key == KeyTable[last'.raw]
              n == Len(contacts)
          IN IF \E i \in 1..n : FuzzyHit(contacts[i], last'.raw)
             THEN /\ Len(contacts') = n
                  /\ \E i \in 1..n :
                        /\ FuzzyHit(contacts[i], last'.raw)
                        /\ identifierToContactMap'[key] = contacts[i].contactId
                        /\ IdsOf(contacts'[i]) = IdsOf(contacts[i]) \cup {key}
                        /\ last'.ret = <<contacts'[i]>>
             ELSE /\ Len(contacts') = n + 1
                  /\ SubSeq(contacts', 1, n) = contacts
                  /\ contacts'[n + 1].contactId = key
                  /\ Len(contacts'[n + 1].identifiers) = 1
                  /\ contacts'[n + 1].identifiers[1].id = key
                  /\ contacts'[n + 1].identifiers[1].rawValue = last'.raw
                  /\ contacts'[n + 1].sources = <<last'.source>>
                  /\ identifierToContactMap'[key] = key
                  /\ last'.ret = <<contacts'[n + 1]>> ]_vars

\* both outcomes in one run: a created Identity, then a fuzzy attachment to it
C4_Witness ==
    /\ last.op = "upsert"
    /\ Len(log) = 2
    /\ KeyTable[log[1].raw] # KeyTable[log[2].raw]
    /\ Len(contacts) = 1
    /\ Len(contacts[1].sources) = 2
    /\ contacts[1].contactId = KeyTable[log[1].raw]

(***************************************************************************)
(* C5: when an upsert merges into an existing Identity, the display name   *)
(* becomes the incoming name exactly when the current name is "Unknown"    *)
(* or the incoming source is "vcf" and the Identity did not carry "vcf"    *)
(* before the call; otherwise the name is unchanged.                       *)
(***************************************************************************)
C5_NameRule ==
    [][ (UpsertStep /\ Len(contacts') = Len(contacts)) =>
          LET i == IndexOf(contacts, last'.ret[1].contactId)
              replaced ==
                  \/ contacts[i].displayName = "Unknown"
                  \/ (last'.source = "vcf" /\ "vcf" \notin TagsOf(contacts[i]))
          IN contacts'[i].displayName =
                IF replaced THEN last'.name ELSE contacts[i].displayName ]_vars

(***************************************************************************)
(* C7: two phone-type identifiers of different canonical keys score 0.95   *)
(* when both have at least 10 digits and equal last 10 digits, 0.9 when    *)
(* only their last 7 digits are equal, and 0 otherwise.                    *)
(***************************************************************************)
C7_PhoneScores ==
    (cmp # <<>> /\ cmp[1].score # -1) =>
        LET k1 == createContactId(cmp[1].id1)
            k2 == createContactId(cmp[1].id2)
            d1 == StripNonDigits(extractContactValue(k1))
            d2 == StripNonDigits(extractContactValue(k2))
            last10 == /\ Len(d1) >= 10
                      /\ Len(d2) >= 10
                      /\ SliceLast(d1, 10) = SliceLast(d2, 10)
            last7 == /\ Len(d1) >= 7
                     /\ Len(d2) >= 7
                     /\ SliceLast(d1, 7) = SliceLast(d2, 7)
        IN ( /\ getContactIdType(k1) = "phone"
             /\ getContactIdType(k2) = "phone"
             /\ k1 # k2 ) =>
                cmp[1].score = IF last10 THEN 95 ELSE IF last7 THEN 90 ELSE 0

(***************************************************************************)
(* C8: fuzzy reconciliation answers with the Identity holding the          *)
(* identifier of the single highest score, provided that score is above    *)
(* 0.8, with the first inserted Identity among those of the highest        *)
(* score, and with no match otherwise.                                     *)
(***************************************************************************)
\* the highest score of raw against the identifiers of contact c
ScoreOf(c, raw) ==
    LET scores == { compareContactIdsTable[<<raw, c.identifiers[k].rawValue>>] :
                        k \in 1..Len(c.identifiers) }
    IN CHOOSE m \in scores : \A x \in scores : x <= m

\* the position of the Identity fuzzy reconciliation must answer with, 0 for none
Expected(cs, raw) ==
    LET top == { i \in 1..Len(cs) :
                    /\ ScoreOf(cs[i], raw) > 80
                    /\ \A j \in 1..Len(cs) : ScoreOf(cs[j], raw) <= ScoreOf(cs[i], raw) }
    IN IF top = {} THEN 0 ELSE CHOOSE i \in top : \A j \in top : i <= j

C9_Step ==
    /\ UpsertStep
    /\ Len(log) = 1
    /\ log[1].raw = "(212) 555-1234"
    /\ log[1].source = "vcf"
    /\ last'.raw = "12125551234"
    /\ last'.source = "chat.db"

\* C9 as claimed: the exact-key lookup of the second identifier fails, the
\* pair scores 0.95 and the upsert merges the two through the fuzzy path
C9_FuzzyMerge ==
    [][ C9_Step =>
          /\ ~OwnedBefore
          /\ compareContactIdsTable[<<"12125551234", "(212) 555-1234">>] = 95
          /\ Len(contacts') = 1 ]_vars

\* C9 as amended: both identifiers normalize to phone:+12125551234, so the
\* exact-key lookup of the second succeeds, the pair scores 1 and the upsert
\* merges the two into one Identity through the exact-key path
C9_ExactMerge ==
    [][ C9_Step =>
          /\ OwnedBefore
          /\ KeyTable["12125551234"] = "phone:+12125551234"
          /\ compareContactIdsTable[<<"12125551234", "(212) 555-1234">>] = 100
          /\ Len(contacts') = 1
          /\ IdsOf(contacts'[1]) = { "phone:+12125551234" }
          /\ Len(contacts'[1].identifiers) = 1
          /\ TagsOf(contacts'[1]) = { "vcf", "chat.db" } ]_vars

\* the two upserts of the example have run
C9_Witness ==
    /\ last.op = "upsert"
    /\ Len(log) = 2
    /\ log[1].raw = "(212) 555-1234"
    /\ log[1].source = "vcf"
    /\ log[2].raw = "12125551234"
    /\ log[2].source = "chat.db"
    /\ Len(contacts) = 1

(***************************************************************************)
(* C10: find leaves both maps unchanged, answers by the exact key when     *)
(* the key is owned, and otherwise answers with the Identity an upsert of  *)
(* the same identifier would attach it to, or with nothing.                *)
(***************************************************************************)
C10_FindFrame ==
    [][ last'.op = "find" =>
          LET key == KeyTable[last'.raw]
              up == addOrUpdateContact(Store, last'.raw, "Unknown", "chat.db")
          IN /\ contacts' = contacts
             /\ identifierToContactMap' = identifierToContactMap
             /\ IF key \in DOMAIN identifierToContactMap
                THEN /\ Len(last'.ret) = 1
                     /\ last'.ret[1].contactId = identifierToContactMap[key]
                     /\ last'.ret[1] \in { contacts[i] : i \in 1..Len(contacts) }
                ELSE IF \E i \in 1..Len(contacts) : FuzzyHit(contacts[i], last'.raw)
                THEN /\ Len(last'.ret) = 1
                     /\ last'.ret[1] \in { contacts[i] : i \in 1..Len(contacts) }
                     /\ FuzzyHit(last'.ret[1], last'.raw)
                     /\ Len(up.contacts) = Len(contacts)
                     /\ up.ret[1].contactId = last'.ret[1].contactId
                ELSE last'.ret = <<>> ]_vars

\* a lookup that resolved by fuzzy match
C10_Witness ==
    /\ last.op = "find"
    /\ last.raw = "3105551234"
    /\ Len(last.ret) = 1
    /\ last.ret[1].contactId = "phone:+12125551234"

(***************************************************************************)
(* C6: the final graph does not depend on the insertion order of a fixed   *)
(* set of (identifier, name, source) triples.                              *)
(***************************************************************************)
EmptyStore == [ contacts |-> <<>>, identifierToContactMap |-> EmptyMap ]

\* the store after upserting the triples of seq, in order, into st
RECURSIVE Run(_, _)
Run(st, seq) ==
    IF seq = <<>> THEN st
    ELSE LET r == addOrUpdateContact(st, Head(seq).raw, Head(seq).name, Head(seq).source)
         IN Run([ contacts |-> r.contacts,
                  identifierToContactMap |-> r.identifierToContactMap ], Tail(seq))

\* the insertion orders of n triples
Orders(n) == { f \in [1..n -> 1..n] : \A i, j \in 1..n : f[i] = f[j] => i = j }

Reordered(seq, f) == [i \in 1..Len(seq) |-> seq[f[i]]]

\* the graph: grouping of identifiers, primary keys, source sets, display names
Shape(cs) ==
    { [ primary |-> cs[i].contactId, ids |-> IdsOf(cs[i]),
        tags |-> TagsOf(cs[i]), name |-> cs[i].displayName ] : i \in 1..Len(cs) }

\* the graph without the display names
Grouping(cs) ==
    { [ primary |-> cs[i].contactId, ids |-> IdsOf(cs[i]),
        tags |-> TagsOf(cs[i]) ] : i \in 1..Len(cs) }

\* upserting raw into st meets a fuzzy-match tie: the key is unowned and two
\* Identities reach the same highest score above the threshold
TieAt(st, raw) ==
    /\ KeyTable[raw] \notin DOMAIN st.identifierToContactMap
    /\ \E i, j \in 1..Len(st.contacts) :
          /\ i # j
          /\ ScoreOf(st.contacts[i], raw) > 80
          /\ ScoreOf(st.contacts[i], raw) = ScoreOf(st.contacts[j], raw)
          /\ \A k \in 1..Len(st.contacts) :
                ScoreOf(st.contacts[k], raw) <= ScoreOf(st.contacts[i], raw)

\* some upsert of seq, run from the empty store, meets a tie
TieIn(seq) ==
    \E n \in 1..Len(seq) : TieAt(Run(EmptyStore, SubSeq(seq, 1, n - 1)), seq[n].raw)

NoFuzzyPair(seq) ==
    \A i, j \in 1..Len(seq) :
        KeyTable[seq[i].raw] # KeyTable[seq[j].raw] =>
            compareContactIdsTable[<<seq[i].raw, seq[j].raw>>] <= 80

PunctChars == { " ", "(", ")", "-", "." }

\* the "+" and digit characters of s, in order
RECURSIVE PlusDigits(_)
PlusDigits(s) ==
    IF s = "" THEN ""
    ELSE IF Head(s) \in (DigitChars \cup {"+"})
         THEN Head(s) \o PlusDigits(Tail(s))
         ELSE PlusDigits(Tail(s))

\* a phone number written with digits, "+", punctuation and spaces only
PhoneString(s) ==
    /\ StripNonDigits(s) # ""
    /\ \A i \in 1..Len(s) : Ch(s, i) \in (DigitChars \cup {"+"} \cup PunctChars)

NormCalled == norm # <<>>

(***************************************************************************)
(* C11: normalization is idempotent: for every raw identifier,             *)
(* normalizePhoneNumber and normalizeEmail applied to their own result     *)
(* return it unchanged, and classifying and normalizing the canonical      *)
(* form gives the same type and the same canonical form; in particular the *)
(* canonical form of a phone-classified input is again phone-classified.   *)
(***************************************************************************)
C11_Idempotent ==
    NormCalled =>
        /\ norm[1].phone # <<>> =>
              normalizePhoneNumber(norm[1].phone[1], norm[1].cc) = norm[1].phone[1]
        /\ norm[1].email # <<>> =>
              normalizeEmail(norm[1].email[1]) = norm[1].email[1]
        /\ norm[1].info # <<>> =>
              LET info == norm[1].info[1]
                  again == createContactInfo(info.normalizedValue, Undefined, Undefined)
              IN /\ again.type = info.type
                 /\ again.normalizedValue = info.normalizedValue
                 /\ info.type = "phone" => isLikelyPhoneNumber(info.normalizedValue)

(***************************************************************************)
(* C12: two phone strings with the same sequence of "+" and digit          *)
(* characters, differing only in punctuation or spacing (also before the   *)
(* "+"), get the same output of normalizePhoneNumber.                      *)
(***************************************************************************)
C12_PunctuationBlind ==
    ( /\ NormCalled
      /\ norm[1].phone # <<>>
      /\ PhoneString(norm[1].raw)
      /\ PhoneString(norm[1].other)
      /\ PlusDigits(norm[1].raw) = PlusDigits(norm[1].other) )
    => norm[1].phone[1] = norm[1].phone[2]

(***************************************************************************)
(* C13: normalizePhoneNumber(raw, cc) follows the four-case rule for every *)
(* raw and cc: "+"... gives "+" and the digits; "00"... gives "+" and the  *)
(* digits after the two zeros; otherwise at least 11 digits starting with  *)
(* cc give "+" and the digits; otherwise "+", cc and the digits.           *)
(***************************************************************************)
C13_FourCases ==
    (NormCalled /\ norm[1].phone # <<>>) =>
        LET raw == norm[1].raw
            cc == norm[1].cc
            digits == StripNonDigits(raw)
        IN norm[1].phone[1] =
              IF StartsWith(raw, "+") THEN "+" \o digits
              ELSE IF StartsWith(raw, "00") THEN "+" \o Substring(digits, 2)
              ELSE IF Len(digits) >= 11 /\ StartsWith(digits, cc) THEN "+" \o digits
              ELSE "+" \o cc \o digits

(***************************************************************************)
(* C13 as the code has it: the empty input gives the empty string; a       *)
(* non-empty input follows the four cases, where the third case takes at   *)
(* least 11 digits that start with "1" or with cc.                         *)
(***************************************************************************)
C13_CodeCases ==
    (NormCalled /\ norm[1].phone # <<>>) =>
        LET raw == norm[1].raw
            cc == norm[1].cc
            digits == StripNonDigits(raw)
        IN norm[1].phone[1] =
              IF raw = "" THEN ""
              ELSE IF StartsWith(raw, "+") THEN "+" \o digits
              ELSE IF StartsWith(raw, "00") THEN "+" \o Substring(digits, 2)
              ELSE IF Len(digits) >= 11
                      /\ (StartsWith(digits, "1") \/ StartsWith(digits, cc))
                   THEN "+" \o digits
              ELSE "+" \o cc \o digits

\* an 11-digit number starting with "1" normalized under country code 44
C13_Witness ==
    /\ NormCalled
    /\ norm[1].raw = "12125551234"
    /\ norm[1].cc = "44"
    /\ norm[1].phone # <<>>
    /\ norm[1].phone[1] = "+12125551234"

(***************************************************************************)
(* C14: the store's key of an identifier is classified email-first: an     *)
(* email-shaped input gets type email and key "email:" and its lowercased  *)
(* value, whatever its digit ratio; a non-email input with digit ratio     *)
(* above 0.5 gets type phone; everything else gets type unknown; and the   *)
(* store's key is the key createContactId computes for the same input.     *)
(***************************************************************************)
C14_EmailFirst ==
    (NormCalled /\ norm[1].info # <<>>) =>
        LET raw == norm[1].raw
            info == norm[1].info[1]
        IN /\ isLikelyEmail(raw) =>
                 /\ info.type = "email"
                 /\ info.id = "email:" \o ToLowerCase(Trim(raw))
           /\ (~isLikelyEmail(raw) /\ isLikelyPhoneNumber(raw)) => info.type = "phone"
           /\ (~isLikelyEmail(raw) /\ ~isLikelyPhoneNumber(raw)) => info.type = "unknown"
           /\ norm[1].key # <<>> => info.id = norm[1].key[1]


(***************************************************************************)
(* C15: searchContacts(query) returns exactly the contacts whose display   *)
(* name, or one of whose raw or normalized identifier values, contains the *)
(* query as a case-insensitive substring, in the order in which the        *)
(* contacts were first inserted, whatever was merged into them later.      *)
(***************************************************************************)
\* s contains q, case-insensitively
ContainsNoCase(s, q) == lowerIncludesTable[<<s, q>>]

\* the strings an Identity is searched by
SearchedBy(contact) ==
    {contact.displayName}
    \cup { contact.identifiers[k].rawValue : k \in 1..Len(contact.identifiers) }
    \cup { contact.identifiers[k].normalizedValue : k \in 1..Len(contact.identifiers) }

\* the upsert that inserted the Identity filed under contactId
FirstInsertedAt(contactId) ==
    CHOOSE i \in 1..Len(log) :
        /\ KeyTable[log[i].raw] = contactId
        /\ \A j \in 1..(i - 1) : KeyTable[log[j].raw] # contactId

C15_Search ==
    last.op = "search" =>
        LET ret == last.ret
            Hit(contact) == \E str \in SearchedBy(contact) : ContainsNoCase(str, last.raw)
        IN /\ { ret[i] : i \in 1..Len(ret) }
                 = { contacts[i] : i \in { j \in 1..Len(contacts) : Hit(contacts[j]) } }
           /\ \A i \in 1..(Len(ret) - 1) :
                 FirstInsertedAt(ret[i].contactId) < FirstInsertedAt(ret[i + 1].contactId)

\* both Identities are returned, the older first, after a later upsert was
\* merged into the older one
C15_Witness ==
    /\ last.op = "search"
    /\ Len(log) = 3
    /\ Len(contacts) = 2
    /\ KeyTable[log[3].raw] = contacts[1].contactId
    /\ Len(contacts[1].sources) = 2
    /\ Len(last.ret) = 2


(***************************************************************************)
(* C16: clear() empties both Maps: right after it findContact returns      *)
(* undefined for every identifier, searchContacts returns no contact for   *)
(* every query and every count of getStats is 0; and the upserts that      *)
(* follow a clear leave the store a new ContactStore would be left in by   *)
(* the same upserts.                                                       *)
(***************************************************************************)
C16_Clear ==
    /\ last.op = "clear" =>
          /\ contacts = <<>>
          /\ identifierToContactMap = EmptyMap
          /\ \A raw \in FindRaws : findContact(Store, raw).ret = <<>>
          /\ \A query \in Queries : searchContacts(Store, query).ret = <<>>
          /\ getStats(Store).ret =
                [ totalContacts |-> 0, phoneContacts |-> 0, emailContacts |-> 0,
                  vcfSourceCount |-> 0, chatDbSourceCount |-> 0 ]
    /\ Store = Run(EmptyStore, log)

\* clear has returned
C16_Witness ==
    /\ last.op = "clear"
    /\ log = <<>>
    /\ contacts = <<>>
    /\ DOMAIN identifierToContactMap = {}


(***************************************************************************)
(* chat.db as the tools read it.  A database value db holds                *)
(*   rows   : the message rows in ROWID order (ROWID = position), each     *)
(*            with its chat from chat_message_join                         *)
(*   joined : ThirdHandle has a row in handle and in chat_handle_join      *)
(* There are two threads: chat 1 with QueriedHandle alone, chat 2 a group  *)
(* thread that ThirdHandle joins.  Results of a query without ORDER BY are *)
(* taken in ROWID order.                                                   *)
(***************************************************************************)
\* SQL NULL
Null == "<null>"

ChatIds == { 1, 2 }

\* handle.id by handle.ROWID
HandleTable(db) ==
    IF db.joined THEN <<QueriedHandle, ThirdHandle>> ELSE <<QueriedHandle>>

\* chat_handle_join: the handle ROWIDs of a chat
ChatHandleJoin(db, chat) == IF chat = 2 /\ db.joined THEN <<1, 2>> ELSE <<1>>

\* position of x in seq, 0 when absent
PositionOf(seq, x) ==
    IF \E i \in 1..Len(seq) : seq[i] = x
    THEN CHOOSE i \in 1..Len(seq) : seq[i] = x /\ \A j \in 1..(i - 1) : seq[j] # x
    ELSE 0

\* the rows of S by descending date (dates are unique)
RECURSIVE ByDateDesc(_)
ByDateDesc(S) ==
    IF S = {} THEN <<>>
    ELSE LET m == CHOOSE r \in S : \A q \in S : q.date <= r.date
         IN <<m>> \o ByDateDesc(S \ {m})

\* LIMIT n
Limit(seq, n) == SubSeq(seq, 1, IF Len(seq) < n THEN Len(seq) ELSE n)

\* the sequences of a sequence of sequences, one after the other
RECURSIVE Flatten(_)
Flatten(seqs) == IF seqs = <<>> THEN <<>> ELSE Head(seqs) \o Flatten(Tail(seqs))

\* Array.prototype.sort by ascending key (stable): the positions in order
RECURSIVE StableOrder(_, _)
StableOrder(keys, I) ==
    IF I = {} THEN <<>>
    ELSE LET m == CHOOSE i \in I :
                     \A j \in I : keys[i] < keys[j] \/ (keys[i] = keys[j] /\ i <= j)
         IN <<m>> \o StableOrder(keys, I \ {m})

SortedBy(seq, keys) ==
    LET o == StableOrder(keys, 1..Len(seq)) IN [i \in 1..Len(seq) |-> seq[o[i]]]

(***************************************************************************)
(* dataLoader.ts.  A point in time (an ISO 8601 string, a Date) is the     *)
(* number of seconds since 1970 it denotes; message.date counts seconds    *)
(* since 2001.  The timestamps of the model are inside the range of Date.  *)
(***************************************************************************)
APPLE_EPOCH_OFFSET == 978307200

appleTimestampToISO(appleTimestamp) == appleTimestamp + APPLE_EPOCH_OFFSET

\* contactId.split(":")[1]
SplitSecond(contactId) ==
    LET c == FirstColon(contactId)
        rest == Substring(contactId, c)
    IN IF c = 0 THEN Undefined
       ELSE IF FirstColon(rest) = 0 THEN rest
       ELSE SubSeq(rest, 1, FirstColon(rest) - 1)

\* the threads the first query of getChatDataForContact can return: the
\* distinct chats holding a message of the handle, by descending date of
\* one of those messages (which one represents a chat is not defined)
SelectThreads(db, handle, conversationLimit) ==
    LET Sent(chat) ==
            { i \in 1..Len(db.rows) :
                db.rows[i].chat_id = chat /\ db.rows[i].handle_id = handle }
        eligible == { chat \in ChatIds : Sent(chat) # {} }
        Representatives ==
            { rep \in [eligible -> 1..Len(db.rows)] :
                \A chat \in eligible : rep[chat] \in Sent(chat) }
        Ordered(rep) ==
            LET byDate == ByDateDesc({ db.rows[rep[chat]] : chat \in eligible })
            IN [k \in 1..Len(byDate) |-> byDate[k].chat_id]
    IN { Limit(Ordered(rep), conversationLimit) : rep \in Representatives }

\* the participant query of a chat
participantsOf(db, chat) ==
    [k \in 1..Len(ChatHandleJoin(db, chat)) |->
        [ id |-> HandleTable(db)[ChatHandleJoin(db, chat)[k]],
          rowid |-> ChatHandleJoin(db, chat)[k] ]]

\* the message query of a chat
chatMessagesOf(db, chat, messageLimit) ==
    Limit(ByDateDesc({ db.rows[i] : i \in { j \in 1..Len(db.rows) :
                                             db.rows[j].chat_id = chat } }),
          messageLimit)

\* the object made of a row (lines 499-511)
formatRow(db, msg) ==
    [ ROWID |-> msg.ROWID,
      text |-> msg.text,
      date |-> appleTimestampToISO(msg.date),
      is_from_me |-> msg.is_from_me,
      handle_id |-> IF msg.handle_id = 0 THEN Null ELSE HandleTable(db)[msg.handle_id],
      conversation_id |-> msg.chat_id,
      conversation_participants |-> participantsOf(db, msg.chat_id) ]

formatRows(db, chatMessages) ==
    [k \in 1..Len(chatMessages) |-> formatRow(db, chatMessages[k])]

getChatDataForContact(db, contactId, threads, messageLimit) ==
    IF ~Truthy(SplitSecond(contactId)) THEN <<>>
    ELSE IF PositionOf(HandleTable(db), SplitSecond(contactId)) = 0 THEN <<>>
    ELSE Flatten([k \in 1..Len(threads) |->
                     formatRows(db, chatMessagesOf(db, threads[k], messageLimit))])

\* the threads of the call: none when the handle is not found
ThreadsFor(db, contactId, conversationLimit) ==
    IF \/ ~Truthy(SplitSecond(contactId))
       \/ PositionOf(HandleTable(db), SplitSecond(contactId)) = 0
    THEN { <<>> }
    ELSE SelectThreads(db, PositionOf(HandleTable(db), SplitSecond(contactId)),
                       conversationLimit)

\* the upserts of loadContactsFromVcf: per card its numbers, then its emails
VcfTriples ==
    Flatten([c \in 1..Len(VCards) |->
        LET name == IF VCards[c].fn = "" THEN "Unknown" ELSE VCards[c].fn
            Triples(values) ==
                [k \in 1..Len(values) |->
                    [ raw |-> values[k], name |-> name, source |-> "vcf" ]]
        IN Triples(SelectSeq(VCards[c].tel, LAMBDA v : v # ""))
           \o Triples(SelectSeq(VCards[c].email, LAMBDA v : v # ""))])

\* the upserts of loadHandlesFromChatDb: every row of the handle table
HandleTriples(db) ==
    [k \in 1..Len(HandleTable(db)) |->
        [ raw |-> HandleTable(db)[k], name |-> "Unknown", source |-> "chat.db" ]]

\* the upserts of loadAllData when both files are read
LoadTriples(db) == VcfTriples \o HandleTriples(db)

loadAllData(st, db) == Run(st, LoadTriples(db))

(***************************************************************************)
(* getConversationsTool.execute.  context is the validated input; an       *)
(* absent date is NoDate, a date string that does not parse InvalidDate.   *)
(* threads is what the thread query of getChatDataForContact returned.     *)
(* A conversation of the result carries, besides the fields of the output, *)
(* messageIds and highestMessageId: the ids of its messages in their       *)
(* final order and the temporary _highestMessageId the code sorts by.      *)
(* Display formatting of the timestamp is not modelled: at is the point    *)
(* in time.                                                                *)
(***************************************************************************)
NoDate == 0

InvalidDate == -1

\* participantContact?.displayName || "Unknown Contact"
participantNameOf(participantContact) ==
    IF participantContact # <<>> /\ Truthy(participantContact[1].displayName)
    THEN participantContact[1].displayName
    ELSE "Unknown Contact"

\* one iteration of the loop of lines 414-430: after is initialParticipants
\* and participantIds
addParticipant(st, after, participant) ==
    IF Truthy(participant.id) /\ participant.id \notin after.ids
    THEN [ participants |->
               Append(after.participants,
                      [ id |-> createContactIdTable[participant.id],
                        name |-> participantNameOf(findContact(st, participant.id).ret) ]),
           ids |-> after.ids \cup { createContactIdTable[participant.id] } ]
    ELSE after

\* the iterations from the k-th on
RECURSIVE addParticipantsFrom(_, _, _, _)
addParticipantsFrom(st, participantInfo, k, after) ==
    IF k > Len(participantInfo) THEN after
    ELSE addParticipantsFrom(st, participantInfo, k + 1,
                             addParticipant(st, after, participantInfo[k]))

\* the participants of a new conversation (the loop of lines 414-430)
addParticipants(st, participantInfo, initialParticipants, participantIds) ==
    addParticipantsFrom(st, participantInfo, 1,
                        [ participants |-> initialParticipants,
                          ids |-> participantIds ]).participants

\* conversationParticipants that lists the queried contact and "me" only
conversationParticipants_initialOnly(st, contactId, contactName, participantInfo) ==
    << [ id |-> contactId, name |-> contactName ], [ id |-> "me", name |-> "You" ] >>

\* the participants a conversation is created with (lines 396-431)
conversationParticipants(st, contactId, contactName, participantInfo) ==
    addParticipants(st, participantInfo,
                    << [ id |-> contactId, name |-> contactName ],
                       [ id |-> "me", name |-> "You" ] >>,
                    { contactId, "me" })

\* where conversationMap holds the conversation, 0 when it does not
conversationIndex(conversationMap, conversationId) ==
    PositionOf([c \in 1..Len(conversationMap) |-> conversationMap[c].conversationId],
               conversationId)

\* if (!conversationMap.has(conversationId)) { ... } (lines 395-437)
withConversation(st, contactId, contactName, conversationMap, msg) ==
    IF conversationIndex(conversationMap, msg.conversationId) # 0 THEN conversationMap
    ELSE Append(conversationMap,
                [ conversationId |-> msg.conversationId,
                  participants |->
                      conversationParticipants(st, contactId, contactName,
                                               msg.participantInfo),
                  messages |-> <<>> ])

\* conversation.messages.push(...) (lines 440-447)
pushMessage(conversationMap, msg) ==
    [conversationMap EXCEPT
        ![conversationIndex(conversationMap, msg.conversationId)].messages =
            Append(@, [ id |-> msg.id, from |-> msg.from,
                        at |-> msg.at, text |-> msg.text ])]

\* the iterations of the first pass from the k-th message on
RECURSIVE groupMessagesFrom(_, _, _, _, _, _)
groupMessagesFrom(st, contactId, contactName, formattedMessages, k, conversationMap) ==
    IF k > Len(formattedMessages) THEN conversationMap
    ELSE groupMessagesFrom(st, contactId, contactName, formattedMessages, k + 1,
            pushMessage(withConversation(st, contactId, contactName, conversationMap,
                                         formattedMessages[k]),
                        formattedMessages[k]))

\* the first pass (lines 392-448): conversationMap, in insertion order
groupMessages(st, contactId, contactName, formattedMessages) ==
    groupMessagesFrom(st, contactId, contactName, formattedMessages, 1, <<>>)

\* Math.max(...ids), 0 for none
MaxOf(ids) ==
    IF ids = <<>> THEN 0
    ELSE CHOOSE m \in { ids[k] : k \in 1..Len(ids) } :
            \A k \in 1..Len(ids) : ids[k] <= m

\* sortMessages that leaves the messages as they were fetched
sortMessages_asFetched(messages) == messages

\* conversation.messages.sort((a, b) => a.id - b.id)
sortMessages(messages) ==
    SortedBy(messages, [k \in 1..Len(messages) |-> messages[k].id])

\* sortConversations that leaves the conversations in Map order
sortConversations_mapOrder(conversations) == conversations

\* conversations.sort((a, b) => a._highestMessageId - b._highestMessageId)
sortConversations(conversations) ==
    SortedBy(conversations,
             [k \in 1..Len(conversations) |-> conversations[k].highestMessageId])

\* dropNullText that keeps every message
dropNullText_keepAll(filteredMessages) == filteredMessages

\* the messages the map of lines 340-379 does not turn into null
dropNullText(filteredMessages) ==
    SelectSeq(filteredMessages, LAMBDA msg : msg.text # Null)

\* the conversation object made of a Map entry whose messages are sorted
finishConversation(conversation, sorted) ==
    [ conversationId |-> conversation.conversationId,
      participants |-> conversation.participants,
      messages |-> [k \in 1..Len(sorted) |->
                      [ from |-> sorted[k].from, at |-> sorted[k].at,
                        text |-> sorted[k].text ]],
      messageIds |-> [k \in 1..Len(sorted) |-> sorted[k].id],
      highestMessageId |-> MaxOf([k \in 1..Len(sorted) |-> sorted[k].id]) ]

\* the second pass (lines 451-488)
finishConversations(conversationMap) ==
    sortConversations(
        [k \in 1..Len(conversationMap) |->
            finishConversation(conversationMap[k],
                               sortMessages(conversationMap[k].messages))])

\* contact?.displayName || "Unknown"
contactNameOf(contact) ==
    IF contact # <<>> /\ Truthy(contact[1].displayName)
    THEN contact[1].displayName ELSE "Unknown"

\* filterByDate that keeps every message
filterByDate_unfiltered(messages, startDate, endDate) == messages

\* the date filters (lines 315-337)
filterByDate(messages, startDate, endDate) ==
    LET NotBefore(msg) == msg.date >= startDate
        NotAfter(msg) == msg.date <= endDate
        fromStart == IF startDate # NoDate THEN SelectSeq(messages, NotBefore) ELSE messages
    IN IF endDate # NoDate THEN SelectSeq(fromStart, NotAfter) ELSE fromStart

\* the sender's name (lines 359-367)
senderNameOf(store, contactName, msg) ==
    IF msg.is_from_me THEN "You"
    ELSE IF msg.handle_id = Null THEN contactName
    ELSE IF findContact(store, msg.handle_id).ret # <<>>
         THEN findContact(store, msg.handle_id).ret[1].displayName
         ELSE contactName

\* the objects of lines 369-377
formatMessages(store, contactName, withText) ==
    [k \in 1..Len(withText) |->
        [ id |-> withText[k].ROWID,
          from |-> senderNameOf(store, contactName, withText[k]),
          at |-> withText[k].date,
          text |-> withText[k].text,
          conversationId |-> withText[k].conversation_id,
          participantInfo |-> withText[k].conversation_participants ]]

\* lines 314-488 on the messages getChatDataForContact returned
assemble(store, contactId, contactName, messages, startDate, endDate) ==
    finishConversations(
        groupMessages(store, contactId, contactName,
            formatMessages(store, contactName,
                dropNullText(filterByDate(messages, startDate, endDate)))))

\* lines 298-500, on the store the load left
respond(store, loaded, db, context, threads) ==
    [ contacts |-> store.contacts,
      identifierToContactMap |-> store.identifierToContactMap,
      loaded |-> loaded,
      ret |-> [ conversations |->
                    assemble(store, context.contactId,
                             contactNameOf(findContact(store, context.contactId).ret),
                             getChatDataForContact(db, context.contactId, threads,
                                                   context.messageLimit),
                             context.startDate, context.endDate),
                details |-> "Retrieved" ] ]

\* an early return (lines 263-283)
refuse(st, details) ==
    [ contacts |-> st.contacts,
      identifierToContactMap |-> st.identifierToContactMap,
      loaded |-> <<>>,
      ret |-> [ conversations |-> <<>>, details |-> details ] ]

execute(st, db, context, threads) ==
    IF context.contactId = "" THEN refuse(st, "A contactId is required.")
    ELSE IF context.startDate = InvalidDate THEN refuse(st, "Invalid startDate format.")
    ELSE IF context.endDate = InvalidDate THEN refuse(st, "Invalid endDate format.")
    ELSE IF st.contacts = <<>>
         THEN respond(loadAllData(st, db), LoadTriples(db), db, context, threads)
         ELSE respond(st, <<>>, db, context, threads)

(***************************************************************************)
(* The conversation tool as a state machine: chat.db grows by message rows *)
(* and by a handle joining the group thread; the tool is called with one   *)
(* of a few inputs.  conv holds the database, the last call on the present *)
(* database, the threads its thread query selected and what it returned.   *)
(***************************************************************************)
\* the rows that are written: chat, text, is_from_me, handle ROWID (0 for
\* none), and whether the row's date is earlier than the date of the row
\* written before it (late) or later than every date so far
MsgKinds ==
    { [ chat_id |-> 1, text |-> "hi",   is_from_me |-> FALSE, handle_id |-> 1, late |-> FALSE ],
      [ chat_id |-> 1, text |-> "re",   is_from_me |-> FALSE, handle_id |-> 1, late |-> TRUE ],
      [ chat_id |-> 1, text |-> Null,   is_from_me |-> FALSE, handle_id |-> 1, late |-> FALSE ],
      [ chat_id |-> 2, text |-> "yo",   is_from_me |-> FALSE, handle_id |-> 1, late |-> TRUE ],
      [ chat_id |-> 2, text |-> "hey",  is_from_me |-> FALSE, handle_id |-> 2, late |-> FALSE ],
      [ chat_id |-> 2, text |-> "mine", is_from_me |-> TRUE,  handle_id |-> 0, late |-> FALSE ] }

Default ==
    [ contactId |-> BobId, startDate |-> NoDate, endDate |-> NoDate,
      conversationLimit |-> 3, messageLimit |-> 20 ]

Contexts ==
    { Default,
      [Default EXCEPT !.conversationLimit = 1],
      [Default EXCEPT !.messageLimit = 2],
      [Default EXCEPT !.startDate = APPLE_EPOCH_OFFSET + 4],
      [Default EXCEPT !.endDate = APPLE_EPOCH_OFFSET + 4],
      [Default EXCEPT !.startDate = InvalidDate],
      [Default EXCEPT !.contactId = NobodyId],
      [Default EXCEPT !.contactId = ""] }

ConvInit ==
    /\ contacts = <<>>
    /\ identifierToContactMap = EmptyMap
    /\ last = NoCall
    /\ log = <<>>
    /\ cmp = <<>>
    /\ norm = <<>>
    /\ conv = << [ rows |-> <<>>, joined |-> FALSE, call |-> <<>>,
                  threads |-> <<>>, ret |-> <<>> ] >>

\* a message is written to chat.db
InsertMessage(kind) ==
    /\ conv # <<>>
    /\ Len(conv[1].rows) < MaxRows
    /\ kind.handle_id = 2 => conv[1].joined
    /\ LET ROWID == Len(conv[1].rows) + 1
           row == [ ROWID |-> ROWID,
                    text |-> kind.text,
                    date |-> IF kind.late THEN 2 * ROWID - 1 ELSE 2 * ROWID + 2,
                    is_from_me |-> kind.is_from_me,
                    handle_id |-> kind.handle_id,
                    chat_id |-> kind.chat_id ]
       IN conv' = << [ conv[1] EXCEPT !.rows = Append(@, row), !.call = <<>>,
                                      !.threads = <<>>, !.ret = <<>> ] >>
    /\ UNCHANGED <<contacts, identifierToContactMap, last, log, cmp, norm>>

\* ThirdHandle gets its rows in handle and chat_handle_join
JoinThread ==
    /\ conv # <<>>
    /\ ~conv[1].joined
    /\ conv' = << [ conv[1] EXCEPT !.joined = TRUE, !.call = <<>>,
                                   !.threads = <<>>, !.ret = <<>> ] >>
    /\ UNCHANGED <<contacts, identifierToContactMap, last, log, cmp, norm>>

\* one call on each state of chat.db: a second call on the same database
\* finds the store loaded and returns what the first does
GetConversations(context) ==
    /\ conv # <<>>
    /\ conv[1].call = <<>>
    /\ \E threads \in ThreadsFor(conv[1], context.contactId, context.conversationLimit) :
          \E r \in { execute(Store, conv[1], context, threads) } :
            /\ contacts' = r.contacts
            /\ identifierToContactMap' = r.identifierToContactMap
            /\ log' = log \o r.loaded
            /\ conv' = << [ conv[1] EXCEPT !.call = <<context>>,
                                           !.threads = threads, !.ret = <<r.ret>> ] >>
    /\ UNCHANGED <<last, cmp, norm>>

ConvNext ==
    \/ \E kind \in MsgKinds : InsertMessage(kind)
    \/ JoinThread
    \/ \E context \in Contexts : GetConversations(context)

ConvSpec == ConvInit /\ [][ConvNext]_vars


(***************************************************************************)
(* Vocabulary of the assembler's properties                                *)
(***************************************************************************)
\* the tool has returned on the present database
Returned == conv # <<>> /\ conv[1].ret # <<>>

Rows == conv[1].rows

Context == conv[1].call[1]

Conversations == conv[1].ret[1].conversations

\* the rows of a chat
RowsOf(chat) == { i \in 1..Len(Rows) : Rows[i].chat_id = chat }

(***************************************************************************)
(* C17: no returned conversation holds a message made from a row whose     *)
(* text is NULL, whatever the rows, the limits and the date range.         *)
(***************************************************************************)
C17_NoNullText ==
    Returned =>
        \A c \in 1..Len(Conversations) :
            LET conversation == Conversations[c] IN
            /\ Len(conversation.messages) = Len(conversation.messageIds)
            /\ \A k \in 1..Len(conversation.messages) :
                  /\ Rows[conversation.messageIds[k]].text # Null
                  /\ conversation.messages[k].text = Rows[conversation.messageIds[k]].text

\* a thread with a NULL-text row and a row with text is returned
C17_Witness ==
    /\ Returned
    /\ Context = Default
    /\ \E c \in 1..Len(Conversations) :
          /\ Conversations[c].messages # <<>>
          /\ \E i \in RowsOf(Conversations[c].conversationId) : Rows[i].text = Null

HighestKept(conversation) == MaxOf(conversation.messageIds)

C19_ConversationOrder ==
    Returned =>
        \A c \in 1..(Len(Conversations) - 1) :
            HighestKept(Conversations[c]) <= HighestKept(Conversations[c + 1])

\* two threads selected most recent first come out in the opposite order
C19_Witness ==
    /\ Returned
    /\ Len(conv[1].threads) = 2
    /\ Len(Conversations) = 2
    /\ Conversations[1].conversationId = conv[1].threads[2]
    /\ Conversations[2].conversationId = conv[1].threads[1]
    /\ HighestKept(Conversations[1]) < HighestKept(Conversations[2])

(***************************************************************************)
(* C20: the participants of every returned conversation include the        *)
(* queried contact id and "me", and every other handle of the thread's     *)
(* participant list, under its contact id and with the display name of     *)
(* the contact findContact returns for it, "Unknown Contact" when it       *)
(* returns none.                                                           *)
(***************************************************************************)
Listed(conversation, id) ==
    \E k \in 1..Len(conversation.participants) : conversation.participants[k].id = id

C20_Participants ==
    Returned =>
        \A c \in 1..Len(Conversations) :
            LET conversation == Conversations[c]
                handles == ChatHandleJoin(conv[1], conversation.conversationId)
            IN /\ Listed(conversation, Context.contactId)
               /\ Listed(conversation, "me")
               /\ \A h \in 1..Len(handles) :
                     LET handle == HandleTable(conv[1])[handles[h]]
                         found == findContact(Store, handle).ret
                     IN createContactIdTable[handle] # Context.contactId =>
                          \E k \in 1..Len(conversation.participants) :
                              /\ conversation.participants[k].id = createContactIdTable[handle]
                              /\ conversation.participants[k].name =
                                    IF found # <<>> THEN found[1].displayName
                                    ELSE "Unknown Contact"

\* the group thread is returned after ThirdHandle joined it, which the
\* store, loaded before, does not know
C20_Witness ==
    /\ Returned
    /\ conv[1].joined
    /\ findContact(Store, ThirdHandle).ret = <<>>
    /\ \E c \in 1..Len(Conversations) :
          /\ Conversations[c].conversationId = 2
          /\ \E k \in 1..Len(Conversations[c].participants) :
                Conversations[c].participants[k] =
                    [ id |-> createContactIdTable[ThirdHandle], name |-> "Unknown Contact" ]

(***************************************************************************)
(* C21: the sender name of every returned message is "You" for a row sent  *)
(* by the local user, otherwise the display name of the contact            *)
(* findContact returns for the row's handle, and "Unknown Contact" when    *)
(* the row has no handle or findContact returns none.                      *)
(***************************************************************************)
C21_SenderName ==
    Returned =>
        \A c \in 1..Len(Conversations) :
            \A k \in 1..Len(Conversations[c].messages) :
                Conversations[c].messages[k].from =
                    IF Rows[Conversations[c].messageIds[k]].is_from_me THEN "You"
                    ELSE IF Rows[Conversations[c].messageIds[k]].handle_id = 0
                         THEN "Unknown Contact"
                    ELSE participantNameOf(
                            findContact(Store,
                                HandleTable(conv[1])[
                                    Rows[Conversations[c].messageIds[k]].handle_id]).ret)

(***************************************************************************)
(* dataLoader.ts when a file is absent or cannot be read.  files.vcf is    *)
(* "ok", "missing" (fs.existsSync is false) or "unparsable" (readFileSync  *)
(* or vcf.parse throws); files.chatDb is "ok", "missing" or "unreadable"   *)
(* (open or a query throws).  A mock conversation mock_conversation_<n>    *)
(* is conversation -(n + 1); now is the time of the call.                  *)
(***************************************************************************)
FileStates ==
    [ vcf : { "ok", "missing", "unparsable" }, chatDb : { "ok", "missing", "unreadable" } ]

Now == APPLE_EPOCH_OFFSET + 10000000

\* the upserts of the catch block of loadContactsFromVcf (lines 215-256)
MockContactTriples ==
    Flatten([c \in 1..Len(MockContacts) |->
        << [ raw |-> MockContacts[c].phone, name |-> MockContacts[c].name, source |-> "vcf" ],
           [ raw |-> MockContacts[c].email, name |-> MockContacts[c].name, source |-> "vcf" ] >>])

\* the upserts of the catch block of loadHandlesFromChatDb (lines 296-313)
MockHandleTriples ==
    [h \in 1..Len(MockHandles) |->
        [ raw |-> MockHandles[h], name |-> "Unknown", source |-> "chat.db" ]]

\* the upserts of loadContactsFromVcf
loadContactsFromVcf(files) ==
    IF files.vcf = "missing" THEN <<>>
    ELSE IF files.vcf = "unparsable" THEN MockContactTriples
    ELSE VcfTriples

\* the upserts of loadHandlesFromChatDb
loadHandlesFromChatDb(files, db) ==
    IF files.chatDb = "missing" THEN <<>>
    ELSE IF files.chatDb = "unreadable" THEN MockHandleTriples
    ELSE HandleTriples(db)

\* the upserts of loadAllData
loadAllDataUpserts(files, db) ==
    loadContactsFromVcf(files) \o loadHandlesFromChatDb(files, db)

\* mockParticipants of mock conversation convId
mockParticipants(normalizedValue, convId) ==
    << [ id |-> normalizedValue, rowid |-> 1000 + convId ],
       [ id |-> MockUser, rowid |-> 2000 + convId ] >>
    \o IF convId % 2 = 0
       THEN << [ id |-> MockThird(convId), rowid |-> 3000 + convId ] >>
       ELSE <<>>

Min(a, b) == IF a < b THEN a ELSE b

\* the i-th message (from 0) of mock conversation convId
mockMessage(normalizedValue, convId, i) ==
    [ ROWID |-> 1000 + convId * 100 + i,
      text |-> (IF i % 2 = 0 THEN "You sent" ELSE "They sent")
               \o ": Message " \o DigitString(i + 1)
               \o " in conversation " \o DigitString(convId + 1),
      date |-> Now - (convId * 7 + (i \div 3)) * 86400 - (i % 3) * 3600,
      is_from_me |-> (i % 2 = 0),
      handle_id |-> IF i % 2 = 0 THEN MockUser ELSE normalizedValue,
      conversation_id |-> -(convId + 1),
      conversation_participants |-> mockParticipants(normalizedValue, convId) ]

\* the catch block of getChatDataForContact (lines 537-593)
mockConversations(normalizedValue, conversationLimit, messageLimit) ==
    Flatten([c \in 1..Min(3, conversationLimit) |->
        [k \in 1..Min(messageLimit, 5 + (c - 1) * 2) |->
            mockMessage(normalizedValue, c - 1, k - 1)]])

\* getChatDataForContact on the files as they are
getChatDataForContactFrom(files, db, contactId, threads, conversationLimit, messageLimit) ==
    IF files.chatDb = "missing" THEN <<>>
    ELSE IF ~Truthy(SplitSecond(contactId)) THEN <<>>
    ELSE IF files.chatDb = "unreadable"
         THEN mockConversations(SplitSecond(contactId), conversationLimit, messageLimit)
    ELSE getChatDataForContact(db, contactId, threads, messageLimit)

\* lines 298-500 of execute on the messages getChatDataForContact returned
respondFrom(store, loaded, messages, context) ==
    [ contacts |-> store.contacts,
      identifierToContactMap |-> store.identifierToContactMap,
      loaded |-> loaded,
      ret |-> [ conversations |->
                    assemble(store, context.contactId,
                             contactNameOf(findContact(store, context.contactId).ret),
                             messages, context.startDate, context.endDate),
                details |-> "Retrieved" ] ]

\* getConversationsTool.execute on the files as they are
executeFrom(st, files, db, context, threads) ==
    IF context.contactId = "" THEN refuse(st, "A contactId is required.")
    ELSE IF context.startDate = InvalidDate THEN refuse(st, "Invalid startDate format.")
    ELSE IF context.endDate = InvalidDate THEN refuse(st, "Invalid endDate format.")
    ELSE IF st.contacts = <<>>
         THEN respondFrom(Run(st, loadAllDataUpserts(files, db)),
                          loadAllDataUpserts(files, db),
                          getChatDataForContactFrom(files, db, context.contactId, threads,
                              context.conversationLimit, context.messageLimit),
                          context)
         ELSE respondFrom(st, <<>>,
                          getChatDataForContactFrom(files, db, context.contactId, threads,
                              context.conversationLimit, context.messageLimit),
                          context)

(***************************************************************************)
(* The conversation tool on files that may be absent or unreadable: the    *)
(* state of the two files is fixed at the start, chat.db grows by rows of  *)
(* the queried handle, and the tool is called.                             *)
(***************************************************************************)
FailKinds == { kind \in MsgKinds : kind.handle_id = 1 /\ ~kind.late }

\* the inputs of the tool: at most three messages of a conversation are
\* asked for
FailDefault == [Default EXCEPT !.messageLimit = 3]

FailContexts ==
    { FailDefault,
      [FailDefault EXCEPT !.conversationLimit = 1],
      [FailDefault EXCEPT !.messageLimit = 2],
      [FailDefault EXCEPT !.contactId = ""] }

FailInit ==
    /\ contacts = <<>>
    /\ identifierToContactMap = EmptyMap
    /\ last = NoCall
    /\ log = <<>>
    /\ cmp = <<>>
    /\ norm = <<>>
    /\ \E files \in FileStates :
          conv = << [ rows |-> <<>>, joined |-> FALSE, call |-> <<>>,
                      threads |-> <<>>, ret |-> <<>>, files |-> files ] >>

\* a message is written to chat.db
WriteMessage(kind) ==
    /\ conv # <<>>
    /\ Len(conv[1].rows) < MaxFailRows
    /\ conv' = << [ conv[1] EXCEPT
                     !.rows = Append(@, [ ROWID |-> Len(conv[1].rows) + 1,
                                          text |-> kind.text,
                                          date |-> 2 * Len(conv[1].rows) + 4,
                                          is_from_me |-> kind.is_from_me,
                                          handle_id |-> kind.handle_id,
                                          chat_id |-> kind.chat_id ]),
                     !.call = <<>>, !.threads = <<>>, !.ret = <<>> ] >>
    /\ UNCHANGED <<contacts, identifierToContactMap, last, log, cmp, norm>>

\* the threads of the call: the thread query runs on a readable chat.db only
ThreadsFrom(files, db, contactId, conversationLimit) ==
    IF files.chatDb = "ok" THEN ThreadsFor(db, contactId, conversationLimit) ELSE { <<>> }

GetConversationsFrom(context) ==
    /\ conv # <<>>
    /\ conv[1].call = <<>>
    /\ \E threads \in ThreadsFrom(conv[1].files, conv[1], context.contactId,
                                   context.conversationLimit) :
          \E r \in { executeFrom(Store, conv[1].files, conv[1], context, threads) } :
            /\ contacts' = r.contacts
            /\ identifierToContactMap' = r.identifierToContactMap
            /\ log' = log \o r.loaded
            /\ conv' = << [ conv[1] EXCEPT !.call = <<context>>,
                                           !.threads = threads, !.ret = <<r.ret>> ] >>
    /\ UNCHANGED <<last, cmp, norm>>

FailNext ==
    \/ \E kind \in FailKinds : WriteMessage(kind)
    \/ \E context \in FailContexts : GetConversationsFrom(context)

FailSpec == FailInit /\ [][FailNext]_vars

(***************************************************************************)
(* C22: no data is fabricated.  Every upsert the store received names an   *)
(* identifier of a card of the contact file, and the file was parsed, or a *)
(* handle of the handle table, and the table was read; every returned      *)
(* message is made of a row of chat.db, and chat.db was read.              *)
(***************************************************************************)
RealVcfRaws ==
    UNION { { VCards[c].tel[k] : k \in 1..Len(VCards[c].tel) }
            \cup { VCards[c].email[k] : k \in 1..Len(VCards[c].email) } :
            c \in 1..Len(VCards) }

C22_NoFabrication ==
    conv # <<>> =>
        /\ \A i \in 1..Len(log) :
              \/ /\ log[i].source = "vcf"
                 /\ conv[1].files.vcf = "ok"
                 /\ log[i].raw \in RealVcfRaws
              \/ /\ log[i].source = "chat.db"
                 /\ conv[1].files.chatDb = "ok"
                 /\ \E h \in 1..Len(HandleTable(conv[1])) : HandleTable(conv[1])[h] = log[i].raw
        /\ Returned =>
              \A c \in 1..Len(Conversations) :
                  \A k \in 1..Len(Conversations[c].messages) :
                      /\ conv[1].files.chatDb = "ok"
                      /\ Conversations[c].messageIds[k] \in 1..Len(Rows)
                      /\ Conversations[c].messages[k].text =
                            Rows[Conversations[c].messageIds[k]].text

(***************************************************************************)
(* C23: no returned conversation has an empty message list.  The returned  *)
(* conversations are exactly the selected threads that keep a message: a   *)
(* fetched row (one of the messageLimit latest of its thread) whose text   *)
(* is not NULL and whose date is inside the inclusive range asked for;     *)
(* and each one holds exactly the rows its thread keeps.                   *)
(***************************************************************************)
\* the row is one of the messageLimit latest rows of its thread
Fetched(i) ==
    Cardinality({ j \in RowsOf(Rows[i].chat_id) : Rows[j].date > Rows[i].date })
        < Context.messageLimit

InRange(i) ==
    /\ Context.startDate # NoDate => Rows[i].date + APPLE_EPOCH_OFFSET >= Context.startDate
    /\ Context.endDate # NoDate => Rows[i].date + APPLE_EPOCH_OFFSET <= Context.endDate

\* the rows of a thread that are fetched and pass the two rules
Kept(chat) == { i \in RowsOf(chat) : Fetched(i) /\ Rows[i].text # Null /\ InRange(i) }

Selected == { conv[1].threads[t] : t \in 1..Len(conv[1].threads) }

C23_NoEmptyConversation ==
    Returned /\ conv[1].ret[1].details = "Retrieved" =>
        /\ \A c \in 1..Len(Conversations) :
              /\ Conversations[c].messages # <<>>
              /\ Conversations[c].conversationId \in Selected
              /\ { Conversations[c].messageIds[k] :
                     k \in 1..Len(Conversations[c].messageIds) }
                    = Kept(Conversations[c].conversationId)
              /\ \A d \in 1..Len(Conversations) :
                    Conversations[d].conversationId = Conversations[c].conversationId
                        => d = c
        /\ \A chat \in Selected :
              Kept(chat) # {} =>
                  \E c \in 1..Len(Conversations) : Conversations[c].conversationId = chat

\* two threads are selected; the date range removes every row of one,
\* which is omitted, and leaves a row of the other, which is returned
C23_Witness ==
    /\ Returned
    /\ Context.startDate # NoDate \/ Context.endDate # NoDate
    /\ Cardinality(Selected) = 2
    /\ Len(Conversations) = 1
    /\ \E chat \in Selected :
          /\ Kept(chat) = {}
          /\ \E i \in RowsOf(chat) : Rows[i].text # Null /\ ~InRange(i)

ToolFileStates ==
    [ vcf : { "ok", "missing", "unparsable" },
      chatDb : { "ok", "missing", "unreadable" },
      dir : { "ok", "unavailable" } ]

\* where the primary information was sourced (lines 106-110)
toolSource(contact) ==
    IF SeqIncludes(contact.sources, "vcf") /\ SeqIncludes(contact.sources, "chat.db")
    THEN "merged"
    ELSE contact.sources[1]

\* an element of the contacts of the output
toolContact(contact, matchConfidence) ==
    [ id |-> contact.contactId,
      name |-> contact.displayName,
      rawIdentifiers |-> [k \in 1..Len(contact.identifiers) |->
                             contact.identifiers[k].rawValue],
      source |-> toolSource(contact),
      matchConfidence |-> matchConfidence ]

\* the output when the load threw (lines 86-92)
toolLoadError(st) ==
    [ contacts |-> st.contacts,
      identifierToContactMap |-> st.identifierToContactMap,
      loaded |-> <<>>,
      ret |-> [ contacts |-> <<>>,
                clarificationNeeded |-> "There was an error loading contact data." ] ]

\* the output made of the search results (lines 118-161)
toolSearchOutput(query, searchResults) ==
    IF Len(searchResults) = 1
    THEN [ contacts |-> << toolContact(searchResults[1], 90) >>,
           clarificationNeeded |-> Undefined ]
    ELSE IF Len(searchResults) > 1
    THEN [ contacts |-> [k \in 1..Len(searchResults) |-> toolContact(searchResults[k], 80)],
           clarificationNeeded |->
               "Found multiple contacts matching \"" \o query \o "\"." ]
    ELSE [ contacts |-> <<>>,
           clarificationNeeded |->
               "Could not find a contact matching \"" \o query \o "\"." ]

\* the output made of the direct lookup, when it is made and finds a
\* contact, and of the search otherwise (lines 94-161)
toolOutput(query, contact, searchResults) ==
    IF (isLikelyPhoneNumber(query) \/ isLikelyEmail(query)) /\ contact # <<>>
    THEN [ contacts |-> << toolContact(contact[1], 100) >>,
           clarificationNeeded |-> Undefined ]
    ELSE toolSearchOutput(query, searchResults)

\* lines 94-161 on the store the load left
toolAnswer(store, loaded, query) ==
    [ contacts |-> store.contacts,
      identifierToContactMap |-> store.identifierToContactMap,
      loaded |-> loaded,
      ret |-> toolOutput(query, findContact(store, query).ret,
                         searchContacts(store, query).ret) ]

\* findContactTool.execute that asks for no clarification
findContactToolExecute_noClarification(st, files, db, query) ==
    [ toolAnswer(st, <<>>, query) EXCEPT !.ret.clarificationNeeded = Undefined ]

\* findContactTool.execute (lines 77-162)
findContactToolExecute(st, files, db, query) ==
    IF st.contacts # <<>> THEN toolAnswer(st, <<>>, query)
    ELSE IF files.dir = "unavailable" THEN toolLoadError(st)
    ELSE toolAnswer(Run(st, loadAllDataUpserts(files, db)),
                    loadAllDataUpserts(files, db), query)

(***************************************************************************)
(* The find-contact tool as a state machine: the state of the files is     *)
(* fixed at the start, a handle may join the handle table, the tool is     *)
(* called.  last holds the query and the output of the last call.          *)
(***************************************************************************)
ToolInit ==
    /\ contacts = <<>>
    /\ identifierToContactMap = EmptyMap
    /\ last = NoCall
    /\ log = <<>>
    /\ cmp = <<>>
    /\ norm = <<>>
    /\ \E files \in ToolFileStates :
          conv = << [ rows |-> <<>>, joined |-> FALSE, call |-> <<>>,
                      threads |-> <<>>, ret |-> <<>>, files |-> files ] >>

FindContactTool(query) ==
    /\ conv # <<>>
    /\ \E r \in { findContactToolExecute(Store, conv[1].files, conv[1], query) } :
          /\ contacts' = r.contacts
          /\ identifierToContactMap' = r.identifierToContactMap
          /\ log' = log \o r.loaded
          /\ last' = [ op |-> "findContactTool", raw |-> query, name |-> "",
                       source |-> "", ret |-> <<r.ret>> ]
    /\ UNCHANGED <<cmp, norm, conv>>

ToolNext ==
    \/ JoinThread
    \/ \E query \in ToolQueries : FindContactTool(query)

ToolSpec == ToolInit /\ [][ToolNext]_vars

(***************************************************************************)
(* C25: the output of the find-contact tool is one of three kinds: no      *)
(* contact and a clarification message, exactly one contact and no         *)
(* clarification message, or two or more contacts and a clarification      *)
(* message.  With the store loaded, it has no contact exactly when the     *)
(* direct lookup gives none and no contact of the store matches the query, *)
(* and several only when several contacts of the store match it.           *)
(***************************************************************************)
ToolReturned == last.op = "findContactTool"

ToolOutput == last.ret[1]

\* the direct lookup of the query is made and finds a contact
DirectHit(query) ==
    /\ isLikelyPhoneNumber(query) \/ isLikelyEmail(query)
    /\ findContact(Store, query).ret # <<>>

\* the contacts of the store that the query matches
Matching(query) ==
    { i \in 1..Len(contacts) :
        \E s \in SearchedBy(contacts[i]) : ContainsNoCase(s, query) }

C26_ParticipantSet ==
    Returned =>
        \A c \in 1..Len(Conversations) :
            \A k, l \in 1..Len(Conversations[c].participants) :
                Conversations[c].participants[k].id = Conversations[c].participants[l].id
                    => k = l

(***************************************************************************)
(* The store under upserts and lookups of what it holds: of the raw        *)
(* identifier of an earlier upsert, and of the contactId of a contact.     *)
(***************************************************************************)
FindRaw(i) == Find(log[i].raw)

FindKey(i) == Find(contacts[i].contactId)

RoundNext ==
    \/ \E t \in RoundTriples :
          Len(log) < MaxRoundUpserts /\ Upsert(t[1], t[2], t[3])
    \/ \E i \in 1..Len(log) : FindRaw(i)
    \/ \E i \in 1..Len(contacts) : FindKey(i)
    \/ Clear

RoundSpec == Init /\ [][RoundNext]_vars

(***************************************************************************)
(* C27: for every contact of the store, of whatever identifier type,       *)
(* findContact of its contactId returns that contact.                      *)
(***************************************************************************)
C27_KeyRoundTrip ==
    \A i \in 1..Len(contacts) :
        findContact(Store, contacts[i].contactId).ret = << contacts[i] >>

(***************************************************************************)
(* C30: read-your-write.  While the store is not cleared, findContact of   *)
(* the raw identifier of an earlier upsert returns a contact, and it is    *)
(* the contact that upsert returned: it has the same contactId.            *)
(***************************************************************************)
\* the contactId of the contact the i-th upsert since the last clear
\* returned
ReturnedAt(i) ==
    addOrUpdateContact(Run(EmptyStore, SubSeq(log, 1, i - 1)),
                       log[i].raw, log[i].name, log[i].source).ret[1].contactId

C30_ReadYourWrite ==
    /\ \A i \in 1..Len(log) :
          /\ findContact(Store, log[i].raw).ret # <<>>
          /\ findContact(Store, log[i].raw).ret[1].contactId = ReturnedAt(i)
    /\ last.op = "find" =>
          \A i \in 1..Len(log) :
              log[i].raw = last.raw =>
                  last.ret # <<>> /\ last.ret[1].contactId = ReturnedAt(i)

\* the raw identifier of the first of three upserts is looked up after the
\* other two, of which one was merged into the contact of the first
C30_Witness ==
    /\ last.op = "find"
    /\ Len(log) = 3
    /\ last.raw = log[1].raw
    /\ Len(contacts) = 2
    /\ last.ret # <<>>
    /\ Len(last.ret[1].sources) = 2

(***************************************************************************)
(* C29: no two distinct contacts hold phone identifiers, neither of them   *)
(* email-shaped, whose normalized digits are at least 7 long and end in    *)
(* the same 7 digits; whatever the order of the upserts, such identifiers  *)
(* are in one contact.                                                     *)
(***************************************************************************)
\* the phone identifiers of a contact that are not email-shaped and have
\* at least 7 digits, as the last 7 digits of their normalized values
PhoneSuffixes(contact) ==
    { SliceLast(StripNonDigits(contact.identifiers[k].normalizedValue), 7) :
        k \in { n \in 1..Len(contact.identifiers) :
                  /\ contact.identifiers[n].type = "phone"
                  /\ ~isLikelyEmail(contact.identifiers[n].rawValue)
                  /\ Len(StripNonDigits(contact.identifiers[n].normalizedValue)) >= 7 } }

C29_SuffixClasses ==
    \A i, j \in 1..Len(contacts) :
        i # j => PhoneSuffixes(contacts[i]) \cap PhoneSuffixes(contacts[j]) = {}

\* three upserts of one number under two country codes and of another
\* number left two contacts, one of which holds two normalized values
C29_Witness ==
    /\ last.op = "upsert"
    /\ Len(log) = 3
    /\ Len(contacts) = 2
    /\ \E i \in 1..Len(contacts) :
          /\ Len(contacts[i].identifiers) = 2
          /\ contacts[i].identifiers[1].normalizedValue
                # contacts[i].identifiers[2].normalizedValue
          /\ Cardinality(PhoneSuffixes(contacts[i])) = 1
    /\ \A i \in 1..Len(contacts) : PhoneSuffixes(contacts[i]) # {}

(***************************************************************************)
(* Two calls of findContactTool.execute that overlap.  A call runs without *)
(* interruption from one await to the next.  From its start it runs to the *)
(* return when the store holds a contact (lines 80, 94-161: no await), and *)
(* otherwise through loadContactsFromVcf, which has no await, to the await *)
(* of loadAllData (dataLoader.ts:602); it resumes in loadHandlesFromChatDb *)
(* and, after the awaits of open and db.all, upserts the handles (line     *)
(* 285); after the awaits of db.close and of lines 603 and 81 it runs the  *)
(* rest of execute.  conv[1].calls[p] is the position of call p, its       *)
(* query, its output and the steps of the load that were done when it ran  *)
(* its lookup; conv[1].merged is the steps of the load done so far.        *)
(***************************************************************************)
Calls == { 1, 2 }

RaceQueries == { "Bob", "555", "+15551234567" }

NoSteps == [ vcf |-> FALSE, handles |-> FALSE ]

RaceInit ==
    /\ contacts = <<>>
    /\ identifierToContactMap = EmptyMap
    /\ last = NoCall
    /\ log = <<>>
    /\ cmp = <<>>
    /\ norm = <<>>
    /\ \E files \in FileStates :
          conv = << [ rows |-> <<>>, joined |-> TRUE, files |-> files,
                      merged |-> NoSteps,
                      calls |-> [p \in Calls |->
                                    [ pc |-> "idle", query |-> "", ret |-> <<>>,
                                      saw |-> NoSteps ]] ] >>

\* the store holds a contact: the call runs to its return
StartLoaded(p, query) ==
    /\ conv # <<>>
    /\ conv[1].calls[p].pc = "idle"
    /\ contacts # <<>>
    /\ conv' = << [ conv[1] EXCEPT !.calls[p] =
                      [ pc |-> "done", query |-> query,
                        ret |-> << toolAnswer(Store, <<>>, query).ret >>,
                        saw |-> conv[1].merged ] ] >>
    /\ UNCHANGED <<contacts, identifierToContactMap, last, log, cmp, norm>>

\* the store is empty: the call runs loadContactsFromVcf and awaits
StartLoad(p, query) ==
    /\ conv # <<>>
    /\ conv[1].calls[p].pc = "idle"
    /\ contacts = <<>>
    /\ \E store \in { Run(Store, loadContactsFromVcf(conv[1].files)) } :
          /\ contacts' = store.contacts
          /\ identifierToContactMap' = store.identifierToContactMap
    /\ log' = log \o loadContactsFromVcf(conv[1].files)
    /\ conv' = << [ conv[1] EXCEPT !.merged.vcf = TRUE,
                                   !.calls[p].pc = "vcf",
                                   !.calls[p].query = query ] >>
    /\ UNCHANGED <<last, cmp, norm>>

\* the call upserts the handles it read and awaits db.close
ReadHandles(p) ==
    /\ conv # <<>>
    /\ conv[1].calls[p].pc = "vcf"
    /\ \E store \in { Run(Store, loadHandlesFromChatDb(conv[1].files, conv[1])) } :
          /\ contacts' = store.contacts
          /\ identifierToContactMap' = store.identifierToContactMap
    /\ log' = log \o loadHandlesFromChatDb(conv[1].files, conv[1])
    /\ conv' = << [ conv[1] EXCEPT !.merged.handles = TRUE,
                                   !.calls[p].pc = "handles" ] >>
    /\ UNCHANGED <<last, cmp, norm>>

\* the call that loaded runs the rest of execute
Answer(p) ==
    /\ conv # <<>>
    /\ conv[1].calls[p].pc = "handles"
    /\ conv' = << [ conv[1] EXCEPT !.calls[p] =
                      [ pc |-> "done", query |-> conv[1].calls[p].query,
                        ret |-> << toolAnswer(Store, <<>>, conv[1].calls[p].query).ret >>,
                        saw |-> conv[1].merged ] ] >>
    /\ UNCHANGED <<contacts, identifierToContactMap, last, log, cmp, norm>>

RaceNext ==
    \/ \E p \in Calls, query \in RaceQueries : StartLoaded(p, query)
    \/ \E p \in Calls, query \in RaceQueries : StartLoad(p, query)
    \/ \E p \in Calls : ReadHandles(p)
    \/ \E p \in Calls : Answer(p)

RaceSpec == RaceInit /\ [][RaceNext]_vars

(***************************************************************************)
(* C28: of two overlapping calls, none runs its lookup before both the     *)
(* contact file and the handle table have been merged into the store.      *)
(***************************************************************************)
C28_NoPartialGraph ==
    conv # <<>> =>
        \A p \in Calls :
            conv[1].calls[p].pc = "done" =>
                conv[1].calls[p].saw.vcf /\ conv[1].calls[p].saw.handles

====
